---- MODULE Spec2Model ----
(***************************************************************************)
(* TDL task store: the two persisted collections (todos.json and           *)
(* todos-history.json), the library operations of lib.js on them, and the  *)
(* CLI commands and tool handlers that call the library.                   *)
(***************************************************************************)
EXTENDS Integers, Sequences, FiniteSets, TLC

\* ------------------------------------------------------------------ bounds
MaxIds == 2      \* how many ids randomUUID hands out in one behaviour
MaxTime == 4     \* the clock runs 0..MaxTime

\* ------------------------------------------------------- values of the code
Null == "null"             \* JavaScript null
Undef == "undefined"       \* JavaScript undefined / an absent property
JTrue == "true"
JFalse == "false"

\* Instants per local calendar day: toLocaleDateString('en-CA') maps an instant
\* to its calendar day.
DayLen == 2
LocaleDate(t) == t \div DayLen

\* if (v): undefined, null and "" are falsy.
Truthy(v) == v \notin {Undef, Null, "", JFalse}

\* What detectProjectName can return.
Projects == {Null, "a"}
\* Category strings, in localeCompare order.
CatOrder == <<"a", "b", "x">>

VARIABLES
  todos,     \* todos.json: the array of active todo records
  history,   \* todos-history.json: [exists, completed, lastCleared]
  now,       \* the clock (new Date())
  nextId,    \* how many ids randomUUID has handed out
  res,       \* what the last operation returned or threw
  procs,     \* per process: where its running operation stands, and its memory
  disk       \* a collection file in the file system: directory entries and inodes

vars == <<todos, history, now, nextId, res, procs, disk>>

\* -------------------------------------------------------------- sequences
RECURSIVE FindIndex(_, _, _)
\* Array.prototype.findIndex(t => t.id === id), 1-based; 0 when absent (-1).
FindIndex(s, id, i) ==
  IF i > Len(s) THEN 0
  ELSE IF s[i].id = id THEN i
  ELSE FindIndex(s, id, i + 1)

\* Array.prototype.splice(i, 1) on a 1-based position.
Splice(s, i) == [k \in 1..(Len(s) - 1) |-> IF k < i THEN s[k] ELSE s[k + 1]]

Ids(s) == {s[i].id : i \in 1..Len(s)}

\* --------------------------------------------------------------- storage
NoHistoryFile == [exists |-> FALSE, completed |-> <<>>, lastCleared |-> 0]

\* readTodos with options {filterByProject, projectName}; p is what
\* detectProjectName returns.
readTodos(file, filterByProject, p) ==
  IF filterByProject /\ Truthy(p)
  THEN SelectSeq(file, LAMBDA t : t.category = p)
  ELSE file

\* readHistory: the parsed file, or the default when the file is missing.
readHistory(file, t) ==
  IF file.exists
  THEN [completed |-> file.completed, lastCleared |-> file.lastCleared]
  ELSE [completed |-> <<>>, lastCleared |-> t]

\* writeHistory: the file now exists with the given content.
writeHistory(h) ==
  [exists |-> TRUE, completed |-> h.completed, lastCleared |-> h.lastCleared]

\* The clear decided on the instant instead of the calendar day.
clearHistoryIfNewInstant(h, t) ==
  IF t # h.lastCleared
  THEN [completed |-> <<>>, lastCleared |-> t]
  ELSE h

\* The clear that moves lastCleared and keeps the entries.
clearHistoryKeepsEntries(h, t) ==
  IF LocaleDate(t) # LocaleDate(h.lastCleared)
  THEN [completed |-> h.completed, lastCleared |-> t]
  ELSE h

clearHistoryIfNewDay(h, t) ==
  IF LocaleDate(t) # LocaleDate(h.lastCleared)
  THEN [completed |-> <<>>, lastCleared |-> t]
  ELSE h

\* ----------------------------------------------------- the file system
\* writeTodos and writeHistory: fs.writeFile(filePath + '.tmp', data) and then
\* fs.rename(tempFile, filePath). One collection file is modelled with its
\* temporary sibling: main and tmp are the directory entries (an inode, 0 for
\* no entry), data the content of each inode as a sequence of chunks, w what
\* each writing process holds: its position, its open inode and its offset.
Chunks == 2      \* a serialised collection is written in this many chunks
Writers == {1, 2}
Inodes == 1..(Cardinality(Writers) + 2)

Hole == [val |-> 0, k |-> 0]
\* JSON.stringify(value) of writer v, chunk by chunk.
Stringify(v) == [k \in 1..Chunks |-> [val |-> v, k |-> k]]

NotWriting == [pc |-> "idle", fd |-> 0, off |-> 0]
NoFiles ==
  [main |-> 0, tmp |-> 0, data |-> [i \in Inodes |-> <<>>],
   w |-> [v \in Writers |-> NotWriting]]

\* The inodes a directory entry or an open file still refers to.
Linked(d) == ({d.main, d.tmp} \cup {d.w[v].fd : v \in Writers}) \ {0}
\* An inode nothing refers to is freed.
Collect(d) == [d EXCEPT !.data = [i \in Inodes |-> IF i \in Linked(d) THEN @[i] ELSE <<>>]]

\* pwrite of one chunk at a 1-based position: the file grows with a hole when
\* the position lies past its end.
PutAt(content, pos, chunk) ==
  [k \in 1..(IF Len(content) > pos THEN Len(content) ELSE pos) |->
     IF k = pos THEN chunk ELSE IF k <= Len(content) THEN content[k] ELSE Hole]

\* JSON.parse(data) succeeds: the content is what some writer serialised.
Parses(content) == \E v \in Writers : content = Stringify(v)

\* fs.readFile(filePath) and JSON.parse in readTodos / readHistory: the error
\* thrown, "" when a value or the empty default is returned.
readFile(d) ==
  IF d.main = 0 THEN ""
  ELSE IF Parses(d.data[d.main]) THEN ""
  ELSE "SyntaxError"

\* ------------------------------------------------------- category.js
\* A task string is modelled as its sequence of tokens: words, "/", "::",
\* ":" (a colon with no colon after it), " " (whitespace within a line) and
\* "\n" (a line terminator). A task text is the token sequence left after
\* trimming.
IsSpace(tok) == tok \in {" ", "\n"}

RECURSIVE TrimLeft(_)
TrimLeft(s) == IF Len(s) > 0 /\ IsSpace(Head(s)) THEN TrimLeft(Tail(s)) ELSE s

RECURSIVE TrimRight(_)
TrimRight(s) ==
  IF Len(s) > 0 /\ IsSpace(s[Len(s)]) THEN TrimRight(SubSeq(s, 1, Len(s) - 1)) ELSE s

\* String.prototype.trim
Trim(s) == TrimRight(TrimLeft(s))

RECURSIVE FirstColons(_, _)
\* Position of the first token holding a colon; 0 when there is none.
FirstColons(s, i) ==
  IF i > Len(s) THEN 0
  ELSE IF s[i] \in {":", "::"} THEN i
  ELSE FirstColons(s, i + 1)

\* taskString.match(/^([^:]+)::(.+)$/): the first colon of the string starts
\* a "::" with at least one character before it, and what follows it is one
\* or more characters none of which is a line terminator, up to the end.
categoryMatch(taskString) ==
  LET c == FirstColons(taskString, 1)
  IN /\ c >= 2 /\ c < Len(taskString)
     /\ taskString[c] = "::"
     /\ \A j \in (c + 1)..Len(taskString) : taskString[j] # "\n"

RECURSIVE SplitSlash(_, _)
\* categoryPart.split('/'): the pieces between the "/" tokens; cur is the
\* piece being read.
SplitSlash(s, cur) ==
  IF Len(s) = 0 THEN <<cur>>
  ELSE IF Head(s) = "/" THEN <<cur>> \o SplitSlash(Tail(s), <<>>)
  ELSE SplitSlash(Tail(s), Append(cur, Head(s)))

\* A piece of the category part as a category string: the inputs hold at most
\* one word per piece, so a trimmed piece is that word, or "" when empty.
PartString(piece) == IF Len(Trim(piece)) = 0 THEN "" ELSE Trim(piece)[1]

\* new TodoCategory(parts, task): empty parts are dropped.
TodoCategory(parts, task) ==
  [parts |-> SelectSeq(parts, LAMBDA q : Truthy(q)), task |-> task, err |-> ""]

\* The format the error of fromString shows for a maximal depth.
formatExample(maxDepth) ==
  IF maxDepth = 1 THEN <<"category", "::", "task">>
  ELSE IF maxDepth = 2 THEN <<"category", "/", "subcategory", "::", "task">>
  ELSE <<"category", "/", "subcategory", "/", "subarea", "::", "task">>

\* The parse that takes any number of levels.
fromStringUnchecked(taskString, maxDepth) ==
  LET c == FirstColons(taskString, 1)
  IN IF ~categoryMatch(taskString)
     THEN TodoCategory(<<>>, Trim(taskString))
     ELSE LET pieces == SplitSlash(Trim(SubSeq(taskString, 1, c - 1)), <<>>)
          IN TodoCategory([i \in 1..Len(pieces) |-> PartString(pieces[i])],
                          Trim(SubSeq(taskString, c + 1, Len(taskString))))

\* TodoCategory.fromString(taskString, maxDepth)
fromString(taskString, maxDepth) ==
  LET c == FirstColons(taskString, 1)
  IN IF ~categoryMatch(taskString)
     THEN TodoCategory(<<>>, Trim(taskString))
     ELSE LET categoryPart == Trim(SubSeq(taskString, 1, c - 1))
              task == Trim(SubSeq(taskString, c + 1, Len(taskString)))
              pieces == SplitSlash(categoryPart, <<>>)
              parts == SelectSeq([i \in 1..Len(pieces) |-> PartString(pieces[i])],
                                 LAMBDA q : q # "")
          IN IF Len(parts) > maxDepth
             THEN [parts |-> parts, task |-> task, err |-> "CategoryTooDeep",
                   depth |-> Len(parts), format |-> formatExample(maxDepth)]
             ELSE TodoCategory(parts, task)

RECURSIVE Join(_, _)
\* parts.join(sep), as tokens.
Join(parts, sep) ==
  IF Len(parts) = 0 THEN <<>>
  ELSE IF Len(parts) = 1 THEN <<parts[1]>>
  ELSE <<parts[1], sep>> \o Join(Tail(parts), sep)

\* TodoCategory.toString(): the parts joined by "/", null when there is none.
toString(tc) == IF Len(tc.parts) > 0 THEN Join(tc.parts, "/") ELSE Null

\* TodoCategory.toGlobalCategory(projectName)
toGlobalCategory(tc, projectName) == TodoCategory(<<projectName>> \o tc.parts, tc.task)

\* TodoCategory.fromStorage(stored).parts: the category path of a stored
\* record.
fromStorage(stored) ==
  (IF Truthy(stored.category) THEN <<stored.category>> ELSE <<>>)
  \o (IF Truthy(stored.subcategory) THEN <<stored.subcategory>> ELSE <<>>)

\* TodoCategory.toStorageV1: parts[0] || null, parts[1] || null, task.
toStorageV1(tc) ==
  [category |-> IF Len(tc.parts) >= 1 THEN tc.parts[1] ELSE Null,
   subcategory |-> IF Len(tc.parts) >= 2 THEN tc.parts[2] ELSE Null,
   task |-> tc.task]

MAX_CATEGORY_DEPTH == 3

\* ------------------------------------------------- results of an operation
\* What a library call leaves in the two files and what it returns or throws:
\* err is "" on success, id is the id of the record affected (or named by the
\* error), n the number of records affected before the return or the throw.
Ok(t, h, id, n) == [todos |-> t, history |-> h, err |-> "", id |-> id, n |-> n]
Throw(t, h, e, id) == [todos |-> t, history |-> h, err |-> e, id |-> id, n |-> 0]

\* A generator that can hand out an id again.
randomUUIDRepeats(used) == IF used = 0 THEN 1 ELSE used

\* randomUUID(): an id never handed out before.
randomUUID(used) == used + 1

\* addTodo(taskString, {autoProject, projectOverride}); p is what
\* detectProjectName returns, id the fresh id, t the clock.
addTodo(file, h, taskString, autoProject, projectOverride, p, id, t) ==
  LET todoCategory == fromString(taskString, MAX_CATEGORY_DEPTH)
      projectName == IF Truthy(projectOverride) THEN projectOverride ELSE p
      finalCategory ==
        IF autoProject /\ Len(todoCategory.parts) \in {0, 1} /\ Truthy(projectName)
        THEN toGlobalCategory(todoCategory, projectName)
        ELSE todoCategory
      st == toStorageV1(finalCategory)
      newTodo == [id |-> id, category |-> st.category,
                  subcategory |-> st.subcategory, task |-> st.task, added |-> t]
  IN IF todoCategory.err # ""
     THEN Throw(file, h, todoCategory.err, todoCategory.depth)
     ELSE Ok(Append(readTodos(file, FALSE, Null), newTodo), h, id, 1)

RECURSIVE bulkAddEach(_, _, _, _, _, _, _, _, _)
\* The loop of bulkAdd: one addTodo per item, a throw ending it. An item is a
\* string (kind "string") or an object {task, autoProject, projectOverride},
\* whose absent options (Undef) fall back to the defaults and then to true.
bulkAddEach(file, h, items, defAuto, defOverride, p, used, t, n) ==
  IF Len(items) = 0 THEN Ok(file, h, 0, n)
  ELSE LET it == Head(items)
           auto == IF it.kind = "object" /\ it.auto # Undef THEN it.auto
                   ELSE IF defAuto # Undef THEN defAuto ELSE JTrue
           override == IF it.kind = "object" /\ it.override \notin {Undef, Null}
                       THEN it.override ELSE defOverride
           r == addTodo(file, h, it.task, auto = JTrue, override, p, randomUUID(used), t)
       IN IF it.kind = "object" /\ Len(it.task) = 0
          THEN [Throw(file, h, "InvalidTask", 0) EXCEPT !.n = n]
          ELSE IF r.err # "" THEN [r EXCEPT !.n = n]
          ELSE bulkAddEach(r.todos, r.history, Tail(items), defAuto, defOverride, p,
                           used + 1, t, n + 1)

\* The bulk add that persists nothing when an item fails.
bulkAddAtomic(file, h, items, defAuto, defOverride, p, used, t) ==
  LET r == bulkAddEach(file, h, items, defAuto, defOverride, p, used, t, 0)
  IN IF Len(items) = 0 THEN Throw(file, h, "InvalidTask", 0)
     ELSE IF r.err # "" THEN Throw(file, h, r.err, r.id)
     ELSE r

\* bulkAdd(tasks, defaultOptions)
bulkAdd(file, h, items, defAuto, defOverride, p, used, t) ==
  IF Len(items) = 0 THEN Throw(file, h, "InvalidTask", 0)
  ELSE bulkAddEach(file, h, items, defAuto, defOverride, p, used, t, 0)

\* findTodoById(id, todos): the 1-based position, 0 for null.
findTodoById(id, list) == FindIndex(list, id, 1)

\* The remove that files the removed task in the ledger.
removeTodoByIdArchiving(file, h, id) ==
  LET list == readTodos(file, FALSE, Null)
      i == findTodoById(id, list)
  IN IF i = 0 THEN Throw(file, h, "NotFound", id)
     ELSE Ok(Splice(list, i),
             writeHistory([completed |-> Append(h.completed, list[i]),
                           lastCleared |-> h.lastCleared]),
             id, 1)

\* removeTodoById(id)
removeTodoById(file, h, id) ==
  LET list == readTodos(file, FALSE, Null)
      i == findTodoById(id, list)
  IN IF i = 0 THEN Throw(file, h, "NotFound", id)
     ELSE Ok(Splice(list, i), h, id, 1)

\* A history entry: the todo with completedAt stamped.
Stamp(todo, t) ==
  [id |-> todo.id, category |-> todo.category, subcategory |-> todo.subcategory,
   task |-> todo.task, added |-> todo.added, completedAt |-> t]

\* The restore that forgets to delete completedAt.
UnstampForgotten(e) == e

\* delete restored.completedAt
Unstamp(e) ==
  [id |-> e.id, category |-> e.category, subcategory |-> e.subcategory,
   task |-> e.task, added |-> e.added]

\* The completion that appends to the ledger as it was read.
completeInMemoryAppendOnly(list, i, hist, t) ==
  [todos |-> Splice(list, i),
   history |-> [hist EXCEPT !.completed = Append(@, Stamp(list[i], t))]]

\* The in-memory part of completeTodoById, between its reads and its writes:
\* list is what readTodos returned, i the position found, hist what readHistory
\* returned.
completeInMemory(list, i, hist, t) ==
  [todos |-> Splice(list, i),
   history |-> [clearHistoryIfNewDay(hist, t) EXCEPT
                  !.completed = Append(@, Stamp(list[i], t))]]

\* completeTodoById(id), run without interruption: writeTodos, then
\* writeHistory.
completeTodoById(file, h, id, t) ==
  LET list == readTodos(file, FALSE, Null)
      i == findTodoById(id, list)
      m == completeInMemory(list, i, readHistory(h, t), t)
  IN IF i = 0 THEN Throw(file, h, "NotFound", id)
     ELSE Ok(m.todos, writeHistory(m.history), id, 1)

\* The restore that puts the task back at the head of the collection.
restoreTodoByIdFirst(file, h, id, t) ==
  LET hist == readHistory(h, t)
      historyIndex == FindIndex(hist.completed, id, 1)
      restored == Unstamp(hist.completed[historyIndex])
      hist2 == [hist EXCEPT !.completed = Splice(@, historyIndex)]
  IN IF historyIndex = 0 THEN Throw(file, h, "NotFound", id)
     ELSE Ok(<<restored>> \o readTodos(file, FALSE, Null), writeHistory(hist2), id, 1)

\* restoreTodoById(id)
restoreTodoById(file, h, id, t) ==
  LET hist == readHistory(h, t)
      historyIndex == FindIndex(hist.completed, id, 1)
      restored == Unstamp(hist.completed[historyIndex])
      hist2 == [hist EXCEPT !.completed = Splice(@, historyIndex)]
  IN IF historyIndex = 0 THEN Throw(file, h, "NotFound", id)
     ELSE Ok(Append(readTodos(file, FALSE, Null), restored), writeHistory(hist2), id, 1)

\* The query that clears in memory and never saves.
queryHistoryUnsaved(h, filterByProject, p, t) ==
  LET hist == clearHistoryIfNewDay(readHistory(h, t), t)
      completed == IF filterByProject /\ Truthy(p)
                   THEN SelectSeq(hist.completed, LAMBDA e : e.category = p)
                   ELSE hist.completed
  IN [history |-> h, out |-> completed]

\* queryHistory({filterByProject}): the ledger after the lazy clear, written
\* back when it is empty; out is the list returned.
queryHistory(h, filterByProject, p, t) ==
  LET hist == clearHistoryIfNewDay(readHistory(h, t), t)
      file == IF Len(hist.completed) = 0 THEN writeHistory(hist) ELSE h
      completed == IF filterByProject /\ Truthy(p)
                   THEN SelectSeq(hist.completed, LAMBDA e : e.category = p)
                   ELSE hist.completed
  IN [history |-> file, out |-> completed]

\* ------------------------------------------------------------- updates
\* An updates object {task, category, subcategory}: has holds the properties
\* that are present (not undefined); a category level may be null (Null).

\* The check that lets every updates object through.
NoUpdatesNever(u) == FALSE

NoUpdates(u) ==
  /\ ("task" \notin u.has \/ Len(u.task) = 0)
  /\ "category" \notin u.has
  /\ "subcategory" \notin u.has

\* The assignments in which a new category drops the subcategory.
applyUpdatesCascade(todo, u) ==
  [todo EXCEPT
     !.task = IF "task" \in u.has THEN u.task ELSE @,
     !.category = IF "category" \in u.has THEN u.category ELSE @,
     !.subcategory = IF "subcategory" \in u.has THEN u.subcategory
                     ELSE IF "category" \in u.has THEN Null ELSE @]

\* The three assignments of updateTodoById / bulkUpdate on one todo.
applyUpdates(todo, u) ==
  [todo EXCEPT
     !.task = IF "task" \in u.has THEN u.task ELSE @,
     !.category = IF "category" \in u.has THEN u.category ELSE @,
     !.subcategory = IF "subcategory" \in u.has THEN u.subcategory ELSE @]

\* updateTodoById(id, updates)
updateTodoById(file, h, id, u) ==
  LET list == readTodos(file, FALSE, Null)
      i == findTodoById(id, list)
  IN IF NoUpdates(u) THEN Throw(file, h, "EmptyPatch", 0)
     ELSE IF i = 0 THEN Throw(file, h, "NotFound", id)
     ELSE Ok([list EXCEPT ![i] = applyUpdates(@, u)], h, id, 1)

\* ------------------------------------------------------ index operations
\* throw new Error(`Invalid index ${index}. Valid range: 1-${length}`): the
\* error carries the index (id) and the length of the list indexed (n).
InvalidIndex(file, h, index, length) ==
  [Throw(file, h, "IndexOutOfRange", index) EXCEPT !.n = length]

\* The remove that takes an index past the end as the index of the last.
removeTodoClamped(file, h, index, filterByProject, p) ==
  LET displayTodos == readTodos(file, filterByProject, p)
  IN IF index - 1 < 0 \/ Len(displayTodos) = 0
     THEN InvalidIndex(file, h, index, Len(displayTodos))
     ELSE IF index > Len(displayTodos)
     THEN removeTodoById(file, h, displayTodos[Len(displayTodos)].id)
     ELSE removeTodoById(file, h, displayTodos[index].id)

\* removeTodo(index, {filterByProject})
removeTodo(file, h, index, filterByProject, p) ==
  LET displayTodos == readTodos(file, filterByProject, p)
  IN IF index - 1 < 0 \/ index - 1 >= Len(displayTodos)
     THEN InvalidIndex(file, h, index, Len(displayTodos))
     ELSE removeTodoById(file, h, displayTodos[index].id)

\* completeTodo(index, {filterByProject})
completeTodo(file, h, index, filterByProject, p, t) ==
  LET displayTodos == readTodos(file, filterByProject, p)
  IN IF index - 1 < 0 \/ index - 1 >= Len(displayTodos)
     THEN InvalidIndex(file, h, index, Len(displayTodos))
     ELSE completeTodoById(file, h, displayTodos[index].id, t)

\* updateTodo(index, updates, {filterByProject})
updateTodo(file, h, index, u, filterByProject, p) ==
  LET displayTodos == readTodos(file, filterByProject, p)
  IN IF NoUpdates(u) THEN Throw(file, h, "EmptyPatch", 0)
     ELSE IF index - 1 < 0 \/ index - 1 >= Len(displayTodos)
     THEN InvalidIndex(file, h, index, Len(displayTodos))
     ELSE updateTodoById(file, h, displayTodos[index].id, u)

\* restoreTodo(index, {filterByProject}): the index is resolved against what
\* queryHistory returns, which applies (and saves) the lazy clear first.
restoreTodo(file, h, index, filterByProject, p, t) ==
  LET q == queryHistory(h, filterByProject, p, t)
  IN IF index - 1 < 0 \/ index - 1 >= Len(q.out)
     THEN InvalidIndex(file, q.history, index, Len(q.out))
     ELSE restoreTodoById(file, q.history, q.out[index].id, t)

\* clearTodos({filterByProject})
clearTodos(file, h, filterByProject, p) ==
  LET remaining == IF filterByProject
                   THEN SelectSeq(file, LAMBDA x : x.category # p)
                   ELSE <<>>
  IN Ok(remaining, h, 0, Len(file) - Len(remaining))

\* -------------------------------------------------------------- filters
\* A filter object: keys holds the names of its own properties (recognised
\* or not), the other fields their values.
RecognisedKeys ==
  {"category", "subcategory", "untagged", "currentProject", "dateFrom", "dateTo",
   "searchText"}

RECURSIVE IsPrefix(_, _)
IsPrefix(a, b) ==
  IF Len(a) = 0 THEN TRUE
  ELSE IF Len(b) = 0 THEN FALSE
  ELSE Head(a) = Head(b) /\ IsPrefix(Tail(a), Tail(b))

RECURSIVE Includes(_, _)
\* String.prototype.includes on token sequences.
Includes(text, part) ==
  IF IsPrefix(part, text) THEN TRUE
  ELSE IF Len(text) = 0 THEN FALSE
  ELSE Includes(Tail(text), part)

\* String.prototype.toLowerCase, word by word: "T" and "U" are the upper-case
\* words of the inputs.
toLowerCase(text) ==
  [i \in 1..Len(text) |-> IF text[i] = "T" THEN "t" ELSE IF text[i] = "U" THEN "u" ELSE text[i]]

\* One todo against the predicates of filterTodos, in the order of the code.
\* A date is [valid, t]: comparing with an invalid date (NaN) is false.
MatchesFilter(x, f, p) ==
  /\ ("currentProject" \in f.keys /\ f.currentProject /\ Truthy(p)) => x.category = p
  /\ ("category" \in f.keys /\ Truthy(f.category)) => x.category = f.category
  /\ ("subcategory" \in f.keys /\ Truthy(f.subcategory)) => x.subcategory = f.subcategory
  /\ ("untagged" \in f.keys /\ f.untagged) => ~Truthy(x.category)
  /\ "dateFrom" \in f.keys => (f.dateFrom.valid /\ x.added >= f.dateFrom.t)
  /\ "dateTo" \in f.keys => (f.dateTo.valid /\ x.added <= f.dateTo.t)
  /\ ("searchText" \in f.keys /\ Len(f.searchText) > 0) =>
       Includes(toLowerCase(x.task), toLowerCase(f.searchText))

\* filterTodos(options)
filterTodos(file, f, p) == SelectSeq(readTodos(file, FALSE, Null), LAMBDA x : MatchesFilter(x, f, p))

\* ------------------------------------------------------ bulk operations
\* A selector: kind "ids" when selector.ids is set, "filter" when
\* selector.filter is set, "bare" when the selector object itself carries the
\* filter keys (backward compatibility).
RECURSIVE SeqToSet(_)
SeqToSet(s) == IF Len(s) = 0 THEN {} ELSE {Head(s)} \cup SeqToSet(Tail(s))

\* The resolution that takes an empty id list and a selector without any
\* filter key as they come.
resolveSelectorUnchecked(file, sel, p) ==
  IF sel.kind = "ids"
  THEN [err |-> "", ids |-> SeqToSet(sel.ids)]
  ELSE [err |-> "", ids |-> Ids(filterTodos(file, sel.filter, p))]

\* The id set a selector resolves to, or the error thrown.
resolveSelector(file, sel, p) ==
  IF sel.kind = "ids"
  THEN IF Len(sel.ids) = 0
       THEN [err |-> "InvalidSelector", ids |-> {}]
       ELSE [err |-> "", ids |-> SeqToSet(sel.ids)]
  ELSE IF sel.kind = "filter"
  THEN [err |-> "", ids |-> Ids(filterTodos(file, sel.filter, p))]
  ELSE IF sel.filter.keys \cap RecognisedKeys = {}
  THEN [err |-> "InvalidSelector", ids |-> {}]
  ELSE [err |-> "", ids |-> Ids(filterTodos(file, sel.filter, p))]

\* bulkUpdate(selector, updates)
bulkUpdate(file, h, sel, u, p) ==
  LET r == resolveSelector(file, sel, p)
      list == readTodos(file, FALSE, Null)
      hit == {i \in 1..Len(list) : list[i].id \in r.ids}
  IN IF NoUpdates(u) THEN Throw(file, h, "EmptyPatch", 0)
     ELSE IF r.err # "" THEN Throw(file, h, r.err, 0)
     ELSE Ok([i \in 1..Len(list) |-> IF i \in hit THEN applyUpdates(list[i], u) ELSE list[i]],
             h, 0, Cardinality(hit))

\* bulkDelete(selector)
bulkDelete(file, h, sel, p) ==
  LET r == resolveSelector(file, sel, p)
      list == readTodos(file, FALSE, Null)
      remaining == SelectSeq(list, LAMBDA x : x.id \notin r.ids)
  IN IF r.err # "" THEN Throw(file, h, r.err, 0)
     ELSE Ok(remaining, h, 0, Len(list) - Len(remaining))

\* ---------------------------------------------------- history operations
\* The keys removeFromHistory, updateHistory and clearHistory take as filter
\* criteria.
HistoryFilterKeys ==
  {"category", "subcategory", "untagged", "dateFrom", "dateTo", "searchText"}

\* filterHistoryItems(items, filter) on one entry; the dates are compared
\* with completedAt.
MatchesHistoryFilter(e, f) ==
  /\ ("category" \in f.keys /\ Truthy(f.category)) => e.category = f.category
  /\ ("subcategory" \in f.keys /\ Truthy(f.subcategory)) => e.subcategory = f.subcategory
  /\ ("untagged" \in f.keys /\ f.untagged) => ~Truthy(e.category)
  /\ "dateFrom" \in f.keys => e.completedAt >= f.dateFrom.t
  /\ "dateTo" \in f.keys => e.completedAt <= f.dateTo.t
  /\ ("searchText" \in f.keys /\ Len(f.searchText) > 0) =>
       Includes(toLowerCase(e.task), toLowerCase(f.searchText))

\* filterHistoryItems throws on a date that does not parse.
filterHistoryItemsThrows(f) ==
  \/ ("dateFrom" \in f.keys /\ ~f.dateFrom.valid)
  \/ ("dateTo" \in f.keys /\ ~f.dateTo.valid)

\* updateHistory(idOrFilter, updates): sel.kind is "id" for a string, "ids"
\* for an array, "filter" for an object and "none" for anything else. The
\* ledger is read as it is (no lazy clear) and written back whatever matched.
updateHistory(file, h, sel, u, t) ==
  LET hist == readHistory(h, t)
      hit == IF sel.kind = "id"
             THEN {i \in 1..Len(hist.completed) : i = FindIndex(hist.completed, sel.id, 1)}
             ELSE IF sel.kind = "ids"
             THEN {i \in 1..Len(hist.completed) : hist.completed[i].id \in SeqToSet(sel.ids)}
             ELSE IF sel.kind = "filter"
             THEN {i \in 1..Len(hist.completed) : MatchesHistoryFilter(hist.completed[i], sel.filter)}
             ELSE {}
      updated == [i \in 1..Len(hist.completed) |->
                    IF i \in hit THEN applyUpdates(hist.completed[i], u) ELSE hist.completed[i]]
  IN IF NoUpdates(u) THEN Throw(file, h, "EmptyPatch", 0)
     ELSE IF sel.kind = "ids" /\ Len(sel.ids) = 0 THEN Throw(file, h, "InvalidSelector", 0)
     ELSE IF sel.kind = "filter" /\ sel.filter.keys \cap HistoryFilterKeys = {}
     THEN Throw(file, h, "InvalidSelector", 0)
     ELSE IF sel.kind = "filter" /\ filterHistoryItemsThrows(sel.filter)
     THEN Throw(file, h, "InvalidFilter", 0)
     ELSE Ok(file, writeHistory([hist EXCEPT !.completed = updated]), 0, Cardinality(hit))

RECURSIVE Without(_, _, _)
\* The entries from position i on whose position is not in gone, in order.
Without(list, gone, i) ==
  IF i > Len(list) THEN <<>>
  ELSE (IF i \in gone THEN <<>> ELSE <<list[i]>>) \o Without(list, gone, i + 1)

\* The removal that takes any selector as it comes.
removeFromHistoryUnchecked(file, h, sel, t) ==
  LET hist == readHistory(h, t)
      n == Len(hist.completed)
      gone == IF sel.kind = "id"
              THEN {i \in 1..n : i = FindIndex(hist.completed, sel.id, 1)}
              ELSE IF sel.kind = "ids"
              THEN {i \in 1..n : hist.completed[i].id \in SeqToSet(sel.ids)}
              ELSE {i \in 1..n : MatchesHistoryFilter(hist.completed[i], sel.filter)}
  IN Ok(file, writeHistory([hist EXCEPT !.completed = Without(hist.completed, gone, 1)]),
        0, Cardinality(gone))

\* removeFromHistory(idOrFilter): the ledger is read as it is and written
\* back whatever matched; a filter removes every entry whose id is the id of
\* a matching entry.
removeFromHistory(file, h, sel, t) ==
  LET hist == readHistory(h, t)
      n == Len(hist.completed)
      removeIds == {hist.completed[i].id :
                      i \in {j \in 1..n : MatchesHistoryFilter(hist.completed[j], sel.filter)}}
      gone == IF sel.kind = "id"
              THEN {i \in 1..n : i = FindIndex(hist.completed, sel.id, 1)}
              ELSE IF sel.kind = "ids"
              THEN {i \in 1..n : hist.completed[i].id \in SeqToSet(sel.ids)}
              ELSE IF sel.kind = "filter"
              THEN {i \in 1..n : hist.completed[i].id \in removeIds}
              ELSE {}
      remaining == Without(hist.completed, gone, 1)
  IN IF sel.kind = "ids" /\ Len(sel.ids) = 0 THEN Throw(file, h, "InvalidSelector", 0)
     ELSE IF sel.kind = "filter" /\ sel.filter.keys \cap HistoryFilterKeys = {}
     THEN Throw(file, h, "InvalidSelector", 0)
     ELSE IF sel.kind = "filter" /\ filterHistoryItemsThrows(sel.filter)
     THEN Throw(file, h, "InvalidFilter", 0)
     ELSE Ok(file, writeHistory([hist EXCEPT !.completed = remaining]), 0, Cardinality(gone))

\* The clear of everything that resets lastCleared to the epoch.
clearHistoryEpoch(file, h, sel, t) ==
  Ok(file, writeHistory([completed |-> <<>>, lastCleared |-> 0]), 0,
     Len(readHistory(h, t).completed))

\* clearHistory(filter = null): without a filter every entry goes and
\* lastCleared becomes now; with one, the matching entries go and lastCleared
\* stays.
clearHistory(file, h, sel, t) ==
  LET hist == readHistory(h, t)
      n == Len(hist.completed)
      removeIds == {hist.completed[i].id :
                      i \in {j \in 1..n : MatchesHistoryFilter(hist.completed[j], sel.filter)}}
      remaining == SelectSeq(hist.completed, LAMBDA e : e.id \notin removeIds)
  IN IF sel.kind = "filter"
     THEN IF sel.filter.keys \cap HistoryFilterKeys = {}
          THEN Throw(file, h, "InvalidSelector", 0)
          ELSE IF filterHistoryItemsThrows(sel.filter)
          THEN Throw(file, h, "InvalidFilter", 0)
          ELSE Ok(file, writeHistory([hist EXCEPT !.completed = remaining]), 0,
                  n - Len(remaining))
     ELSE Ok(file, writeHistory([completed |-> <<>>, lastCleared |-> t]), 0, n)

\* ------------------------------------------------- tool handlers (index.js)
\* The arguments of a *_todos tool call: kind names the first of id, ids and
\* filter that is set ("none" when none is).
RECURSIVE completeEach(_, _, _, _, _)
\* for (const id of idsToComplete) completeTodoById(id): a throw ends the loop
\* and keeps what the earlier rounds wrote.
completeEach(file, h, ids, t, n) ==
  IF Len(ids) = 0 THEN Ok(file, h, 0, n)
  ELSE LET r == completeTodoById(file, h, Head(ids), t)
       IN IF r.err # "" THEN [r EXCEPT !.n = n]
          ELSE completeEach(r.todos, r.history, Tail(ids), t, n + 1)

RECURSIVE restoreEach(_, _, _, _, _)
restoreEach(file, h, ids, t, n) ==
  IF Len(ids) = 0 THEN Ok(file, h, 0, n)
  ELSE LET r == restoreTodoById(file, h, Head(ids), t)
       IN IF r.err # "" THEN [r EXCEPT !.n = n]
          ELSE restoreEach(r.todos, r.history, Tail(ids), t, n + 1)

IdsOf(list) == [i \in 1..Len(list) |-> list[i].id]

\* case "remove_todos"
remove_todos(file, h, args, p) ==
  IF args.kind = "id" THEN bulkDelete(file, h, [kind |-> "ids", ids |-> <<args.id>>, filter |-> args.filter], p)
  ELSE IF args.kind = "ids"
  THEN IF Len(args.ids) = 0 THEN Throw(file, h, "InvalidSelector", 0)
       ELSE bulkDelete(file, h, [kind |-> "ids", ids |-> args.ids, filter |-> args.filter], p)
  ELSE IF args.kind = "filter"
  THEN IF Cardinality(args.filter.keys) = 0 THEN Throw(file, h, "InvalidSelector", 0)
       ELSE bulkDelete(file, h, [kind |-> "filter", ids |-> <<>>, filter |-> args.filter], p)
  ELSE Throw(file, h, "InvalidSelector", 0)

\* case "update_todos"
update_todos(file, h, args, u, p) ==
  IF args.kind = "id" THEN bulkUpdate(file, h, [kind |-> "ids", ids |-> <<args.id>>, filter |-> args.filter], u, p)
  ELSE IF args.kind = "ids"
  THEN IF Len(args.ids) = 0 THEN Throw(file, h, "InvalidSelector", 0)
       ELSE bulkUpdate(file, h, [kind |-> "ids", ids |-> args.ids, filter |-> args.filter], u, p)
  ELSE IF args.kind = "filter"
  THEN IF Cardinality(args.filter.keys) = 0 THEN Throw(file, h, "InvalidSelector", 0)
       ELSE bulkUpdate(file, h, [kind |-> "filter", ids |-> <<>>, filter |-> args.filter], u, p)
  ELSE Throw(file, h, "InvalidSelector", 0)

\* case "complete_todos"
complete_todos(file, h, args, p, t) ==
  IF args.kind = "id" THEN completeEach(file, h, <<args.id>>, t, 0)
  ELSE IF args.kind = "ids"
  THEN IF Len(args.ids) = 0 THEN Throw(file, h, "InvalidSelector", 0)
       ELSE completeEach(file, h, args.ids, t, 0)
  ELSE IF args.kind = "filter"
  THEN IF Cardinality(args.filter.keys) = 0 THEN Throw(file, h, "InvalidSelector", 0)
       ELSE completeEach(file, h, IdsOf(filterTodos(file, args.filter, p)), t, 0)
  ELSE Throw(file, h, "InvalidSelector", 0)

\* The inline filter of case "restore_todos" on one history entry: the
\* predicates of filterTodos, the dates compared with the entry's added.
MatchesRestoreFilter(e, f, p) ==
  /\ ("currentProject" \in f.keys /\ f.currentProject /\ Truthy(p)) => e.category = p
  /\ ("category" \in f.keys /\ Truthy(f.category)) => e.category = f.category
  /\ ("subcategory" \in f.keys /\ Truthy(f.subcategory)) => e.subcategory = f.subcategory
  /\ ("untagged" \in f.keys /\ f.untagged) => ~Truthy(e.category)
  /\ "dateFrom" \in f.keys => (f.dateFrom.valid /\ e.added >= f.dateFrom.t)
  /\ "dateTo" \in f.keys => (f.dateTo.valid /\ e.added <= f.dateTo.t)
  /\ ("searchText" \in f.keys /\ Len(f.searchText) > 0) =>
       Includes(toLowerCase(e.task), toLowerCase(f.searchText))

\* case "restore_todos"
restore_todos(file, h, args, p, t) ==
  IF args.kind = "id" THEN restoreEach(file, h, <<args.id>>, t, 0)
  ELSE IF args.kind = "ids"
  THEN IF Len(args.ids) = 0 THEN Throw(file, h, "InvalidSelector", 0)
       ELSE restoreEach(file, h, args.ids, t, 0)
  ELSE IF args.kind = "filter"
  THEN IF Cardinality(args.filter.keys) = 0 THEN Throw(file, h, "InvalidSelector", 0)
       ELSE LET q == queryHistory(h, FALSE, p, t)
                matchingTodos == SelectSeq(q.out, LAMBDA e : MatchesRestoreFilter(e, args.filter, p))
            IN restoreEach(file, q.history, IdsOf(matchingTodos), t, 0)
  ELSE Throw(file, h, "InvalidSelector", 0)

\* ------------------------------------------------------------- display
RECURSIVE Concat(_, _)
\* groups[i] \o ... \o groups[n]: the flattened list in display order.
Concat(groups, i) ==
  IF i > Len(groups) THEN <<>> ELSE groups[i] \o Concat(groups, i + 1)

\* todo.category || '__untagged__' and todo.subcategory || null
GroupKey(v) == IF Truthy(v) THEN v ELSE Null

\* groupTodosByCategory followed by the renumbering of formatTodoList: the
\* categories alphabetically with the untagged group last, in each the todos
\* without subcategory first and then the subcategories alphabetically, in
\* each the todos in their stored order.
DisplayOrder(list) ==
  LET categories == CatOrder \o <<Null>>
      subcategories == <<Null>> \o CatOrder
      SubGroup(c, sc) ==
        SelectSeq(list, LAMBDA x : GroupKey(x.category) = c /\ GroupKey(x.subcategory) = sc)
      Group(c) ==
        Concat([j \in 1..Len(subcategories) |-> SubGroup(c, subcategories[j])], 1)
  IN Concat([k \in 1..Len(categories) |-> Group(categories[k])], 1)

\* The list command (cli.js) and display_todos: what position N shows.
displayTodos(file, filterByProject, p) == DisplayOrder(readTodos(file, filterByProject, p))

\* ------------------------------------------------------------- actions
Result(op, r) == [op |-> op, err |-> r.err, id |-> r.id, n |-> r.n]

\* No call is in progress: the last result was handed to the caller.
NoResult == [op |-> "none", err |-> "", id |-> 0, n |-> 0]
Ready == res = NoResult

\* An operation ran to its return or throw, leaving r.
Ran(op, r) ==
  /\ Ready
  /\ todos' = r.todos
  /\ history' = r.history
  /\ res' = Result(op, r)
  /\ UNCHANGED <<now, procs, disk>>

TaskStrings ==
  { <<"t">>, <<" ", "x", " ", "::", " ", "t">>,
    <<"a", "/", "b", "/", "x", "/", "a", "::", "t">> }

\* Task strings with no, one, two, three and four category levels.
TwoLevels == <<"b", "/", "x", "::", "t">>
ThreeLevels == <<"a", "/", "b", "/", "x", "::", "t">>
FourLevels == <<"a", "/", "b", "/", "x", "/", "a", "::", "t">>
AddStrings == TaskStrings \cup {TwoLevels, ThreeLevels}

\* Category prefixes of one to three levels, each level a non-empty trimmed
\* word, joined by "/".
LevelWords == {"a", "b", "x"}
Prefixes ==
  {Join(<<l1>>, "/") : l1 \in LevelWords}
  \cup {Join(<<l1, l2>>, "/") : l1 \in LevelWords, l2 \in LevelWords}
  \cup {Join(<<l1, l2, l3>>, "/") : l1 \in LevelWords, l2 \in LevelWords, l3 \in LevelWords}

\* Task texts, trimmed and non-empty: one word, two words, a text holding
\* "::", and a text of two lines.
Texts == { <<"t">>, <<"t", " ", "u">>, <<"t", "::", "u">>, <<"t", "\n", "u">> }

\* Task strings that hold no "::".
NoColonStrings == { <<"t">>, <<"t", " ", "u">>, <<"a", "/", "b">>, <<"t", "\n", "u">> }

ParseInputs == {pre \o <<"::">> \o text : pre \in Prefixes, text \in Texts} \cup NoColonStrings

IdInputs == 1..(MaxIds + 1)

\* The processes (a CLI run, the tool server) that work on the two files.
Procs == {1, 2}
\* The process that is stopped between awaits.
Stopped == {1}
Idle == [pc |-> "idle", id |-> 0, todos |-> <<>>, history |-> NoHistoryFile]

Init ==
  /\ todos = <<>>
  /\ history = NoHistoryFile
  /\ now = 0
  /\ nextId = 0
  /\ res = NoResult
  /\ procs = [q \in Procs |-> Idle]
  /\ disk = NoFiles

\* The clock advances.
Tick ==
  /\ Ready
  /\ now < MaxTime
  /\ now' = now + 1
  /\ UNCHANGED <<todos, history, nextId, res, procs, disk>>

\* The caller takes the result or the error of the call: the command prints
\* it and exits, the tool handler returns it as the response.
Return ==
  /\ ~Ready
  /\ res' = NoResult
  /\ UNCHANGED <<todos, history, now, nextId, procs, disk>>

\* TodoCategory.fromString(s, MAX_CATEGORY_DEPTH), the string and the parsed
\* category handed to the caller.
FromString(s) ==
  /\ Ready
  /\ LET tc == fromString(s, MAX_CATEGORY_DEPTH)
     IN res' = [op |-> "fromString", err |-> tc.err, id |-> 0, n |-> Len(tc.parts),
                input |-> s, parts |-> tc.parts, task |-> tc.task]
  /\ UNCHANGED <<todos, history, now, nextId, procs, disk>>

AddTodo(s, autoProject, projectOverride, p) ==
  /\ nextId < MaxIds
  /\ LET r == addTodo(todos, history, s, autoProject, projectOverride, p,
                      randomUUID(nextId), now)
     IN /\ Ran("addTodo", r)
        /\ nextId' = IF r.err = "" THEN nextId + 1 ELSE nextId

BulkAdd(items, defAuto, defOverride, p) ==
  /\ nextId + Len(items) <= MaxIds
  /\ LET r == bulkAdd(todos, history, items, defAuto, defOverride, p, nextId, now)
     IN /\ Ran("bulkAdd", r)
        /\ nextId' = nextId + r.n

RemoveTodoById(id) ==
  /\ Ran("removeTodoById", removeTodoById(todos, history, id))
  /\ UNCHANGED nextId

CompleteTodoById(id) ==
  /\ Ran("completeTodoById", completeTodoById(todos, history, id, now))
  /\ UNCHANGED nextId

RestoreTodoById(id) ==
  /\ Ran("restoreTodoById", restoreTodoById(todos, history, id, now))
  /\ UNCHANGED nextId

QueryHistory(filterByProject, p) ==
  /\ Ready
  /\ history' = queryHistory(history, filterByProject, p, now).history
  /\ res' = [op |-> "queryHistory", err |-> "", id |-> 0,
             n |-> Len(queryHistory(history, filterByProject, p, now).out)]
  /\ UNCHANGED <<todos, now, nextId, procs, disk>>

UpdateTodoById(id, u) ==
  /\ Ran("updateTodoById", updateTodoById(todos, history, id, u))
  /\ UNCHANGED nextId

RemoveTodo(index, filterByProject, p) ==
  /\ Ran("removeTodo", removeTodo(todos, history, index, filterByProject, p))
  /\ UNCHANGED nextId

CompleteTodo(index, filterByProject, p) ==
  /\ Ran("completeTodo", completeTodo(todos, history, index, filterByProject, p, now))
  /\ UNCHANGED nextId

UpdateTodo(index, u, filterByProject, p) ==
  /\ Ran("updateTodo", updateTodo(todos, history, index, u, filterByProject, p))
  /\ UNCHANGED nextId

RestoreTodo(index, filterByProject, p) ==
  /\ Ran("restoreTodo", restoreTodo(todos, history, index, filterByProject, p, now))
  /\ UNCHANGED nextId

ClearTodos(filterByProject, p) ==
  /\ Ran("clearTodos", clearTodos(todos, history, filterByProject, p))
  /\ UNCHANGED nextId

BulkUpdate(sel, u, p) ==
  /\ Ran("bulkUpdate", bulkUpdate(todos, history, sel, u, p))
  /\ UNCHANGED nextId

BulkDelete(sel, p) ==
  /\ Ran("bulkDelete", bulkDelete(todos, history, sel, p))
  /\ UNCHANGED nextId

UpdateHistory(sel, u) ==
  /\ Ran("updateHistory", updateHistory(todos, history, sel, u, now))
  /\ UNCHANGED nextId

RemoveFromHistory(sel) ==
  /\ Ran("removeFromHistory", removeFromHistory(todos, history, sel, now))
  /\ UNCHANGED nextId

ClearHistory(sel) ==
  /\ Ran("clearHistory", clearHistory(todos, history, sel, now))
  /\ UNCHANGED nextId

\* filterTodos(options), the list handed to the caller.
FilterTodos(f, p) ==
  /\ Ready
  /\ res' = [op |-> "filterTodos", err |-> "", id |-> 0,
             n |-> Len(filterTodos(todos, f, p)), out |-> filterTodos(todos, f, p)]
  /\ UNCHANGED <<todos, history, now, nextId, procs, disk>>

RemoveTodosTool(args, p) ==
  /\ Ran("remove_todos", remove_todos(todos, history, args, p))
  /\ UNCHANGED nextId

UpdateTodosTool(args, u, p) ==
  /\ Ran("update_todos", update_todos(todos, history, args, u, p))
  /\ UNCHANGED nextId

CompleteTodosTool(args, p) ==
  /\ Ran("complete_todos", complete_todos(todos, history, args, p, now))
  /\ UNCHANGED nextId

RestoreTodosTool(args, p) ==
  /\ Ran("restore_todos", restore_todos(todos, history, args, p, now))
  /\ UNCHANGED nextId

\* ------------------------------------------------ addTodo, await by await
\* Two processes run addTodo on the same todos.json; nothing orders the read
\* of one and the write of the other.

\* await readTodos(); the new record pushed on the list read.
AddRead(q, taskString) ==
  /\ procs[q].pc = "idle"
  /\ nextId < MaxIds
  /\ LET r == addTodo(todos, history, taskString, TRUE, Null, Null, randomUUID(nextId), now)
     IN /\ r.err = ""
        /\ procs' = [procs EXCEPT ![q] = [pc |-> "addWrite", id |-> r.id,
                                          todos |-> r.todos, history |-> NoHistoryFile]]
  /\ nextId' = nextId + 1
  /\ UNCHANGED <<todos, history, now, res, disk>>

\* The write that takes the file as it is now and appends the new record.
AddWriteMerged(q) ==
  /\ procs[q].pc = "addWrite"
  /\ todos' = Append(todos, procs[q].todos[Len(procs[q].todos)])
  /\ procs' = [procs EXCEPT ![q].pc = "added"]
  /\ UNCHANGED <<history, now, nextId, res, disk>>

\* await writeTodos(todos); return {todos, added}: the call has succeeded.
AddWrite(q) ==
  /\ procs[q].pc = "addWrite"
  /\ todos' = procs[q].todos
  /\ procs' = [procs EXCEPT ![q].pc = "added"]
  /\ UNCHANGED <<history, now, nextId, res, disk>>

\* The caller has taken the result; the process ends.
AddExit(q) ==
  /\ procs[q].pc = "added"
  /\ procs' = [procs EXCEPT ![q] = Idle]
  /\ UNCHANGED <<todos, history, now, nextId, res, disk>>

\* ------------------------------------- writeTodos / writeFile, call by call
\* fs.writeFile opens the temporary path with O_CREAT | O_TRUNC: the entry's
\* inode emptied, or a new inode when there is no entry.
WriteFileOpen(v) ==
  /\ disk.w[v].pc \in {"idle", "failed"}
  /\ LET ino == IF disk.tmp # 0 THEN disk.tmp
                ELSE CHOOSE i \in Inodes \ Linked(disk) : \A j \in Inodes \ Linked(disk) : i <= j
     IN disk' = [disk EXCEPT !.tmp = ino, !.data[ino] = <<>>,
                             !.w[v] = [pc |-> "write", fd |-> ino, off |-> 0]]
  /\ UNCHANGED <<todos, history, now, nextId, res, procs>>

\* fs.writeFile writes the next chunk at its own offset of the open inode.
WriteFileChunk(v) ==
  /\ disk.w[v].pc = "write"
  /\ disk.w[v].off < Chunks
  /\ disk' = [disk EXCEPT
                !.data[disk.w[v].fd] = PutAt(@, disk.w[v].off + 1, Stringify(v)[disk.w[v].off + 1]),
                !.w[v].off = @ + 1]
  /\ UNCHANGED <<todos, history, now, nextId, res, procs>>

\* fs.writeFile closes the file and fs.rename(tempFile, filePath) replaces the
\* collection file by whatever the temporary entry refers to now; ENOENT when
\* another process renamed the entry away.
RenameTemp(v) ==
  /\ disk.w[v].pc = "write"
  /\ disk.w[v].off = Chunks
  /\ disk' = IF disk.tmp = 0
             THEN Collect([disk EXCEPT !.w[v] = [pc |-> "failed", fd |-> 0, off |-> 0]])
             ELSE Collect([disk EXCEPT !.main = disk.tmp, !.tmp = 0, !.w[v] = NotWriting])
  /\ UNCHANGED <<todos, history, now, nextId, res, procs>>

\* readTodos / readHistory by a process of its own.
ReadFile ==
  /\ Ready
  /\ res' = [op |-> "readFile", err |-> readFile(disk), id |-> 0, n |-> 0]
  /\ UNCHANGED <<todos, history, now, nextId, procs, disk>>

\* --------------------------------------- completeTodoById, await by await
\* A process runs completeTodoById one await at a time and may be stopped
\* between any two of them; what it holds in memory is then lost. Stops can
\* leave a record in both files, so the calls are taken while the collection
\* they add to holds fewer than MaxIds records.

\* await readTodos(); findTodoById; the throw when the id is not there.
CompleteReadTodos(q, id) ==
  /\ Ready
  /\ procs[q].pc = "idle"
  /\ Len(history.completed) < MaxIds
  /\ IF findTodoById(id, readTodos(todos, FALSE, Null)) = 0
     THEN /\ res' = [op |-> "completeTodoById", err |-> "NotFound", id |-> id, n |-> 0]
          /\ UNCHANGED procs
     ELSE /\ procs' = [procs EXCEPT ![q] = [pc |-> "readHistory", id |-> id,
                                            todos |-> readTodos(todos, FALSE, Null),
                                            history |-> NoHistoryFile]]
          /\ UNCHANGED res
  /\ UNCHANGED <<todos, history, now, nextId, disk>>

\* await readHistory(); the lazy clear, the splice, the stamp and the push.
CompleteReadHistory(q) ==
  /\ procs[q].pc = "readHistory"
  /\ LET m == completeInMemory(procs[q].todos, findTodoById(procs[q].id, procs[q].todos),
                               readHistory(history, now), now)
     IN procs' = [procs EXCEPT ![q] = [pc |-> "writeTodos", id |-> @.id,
                                       todos |-> m.todos,
                                       history |-> writeHistory(m.history)]]
  /\ UNCHANGED <<todos, history, now, nextId, res, disk>>

\* await writeTodos(todos)
CompleteWriteTodos(q) ==
  /\ procs[q].pc = "writeTodos"
  /\ todos' = procs[q].todos
  /\ procs' = [procs EXCEPT ![q].pc = "writeHistory"]
  /\ UNCHANGED <<history, now, nextId, res, disk>>

\* await writeHistory(history); return
CompleteWriteHistory(q) ==
  /\ procs[q].pc = "writeHistory"
  /\ history' = procs[q].history
  /\ procs' = [procs EXCEPT ![q] = Idle]
  /\ res' = [op |-> "completeTodoById", err |-> "", id |-> procs[q].id, n |-> 1]
  /\ UNCHANGED <<todos, now, nextId, disk>>

\* ---------------------------------------- restoreTodoById, await by await
\* await readHistory(); findIndex; the throw when the id is not there; the
\* splice and the delete of completedAt. The restored record is kept in the
\* process's memory until readTodos returns.
RestoreReadHistory(q, id) ==
  /\ Ready
  /\ procs[q].pc = "idle"
  /\ Len(todos) < MaxIds
  /\ LET hist == readHistory(history, now)
         historyIndex == FindIndex(hist.completed, id, 1)
     IN IF historyIndex = 0
        THEN /\ res' = [op |-> "restoreTodoById", err |-> "NotFound", id |-> id, n |-> 0]
             /\ UNCHANGED procs
        ELSE /\ procs' = [procs EXCEPT ![q] =
                           [pc |-> "restoreReadTodos", id |-> id,
                            todos |-> <<Unstamp(hist.completed[historyIndex])>>,
                            history |-> writeHistory([hist EXCEPT !.completed = Splice(@, historyIndex)])]]
             /\ UNCHANGED res
  /\ UNCHANGED <<todos, history, now, nextId, disk>>

\* await readTodos(); todos.push(restored)
RestoreReadTodos(q) ==
  /\ procs[q].pc = "restoreReadTodos"
  /\ procs' = [procs EXCEPT ![q].pc = "restoreWriteTodos",
                            ![q].todos = readTodos(todos, FALSE, Null) \o @]
  /\ UNCHANGED <<todos, history, now, nextId, res, disk>>

\* The write of the ledger in the place of the write of the todos.
RestoreWriteLedgerFirst(q) ==
  /\ procs[q].pc = "restoreWriteTodos"
  /\ history' = procs[q].history
  /\ procs' = [procs EXCEPT ![q].pc = "restoreWriteHistory"]
  /\ UNCHANGED <<todos, now, nextId, res, disk>>

\* await writeTodos(todos)
RestoreWriteTodos(q) ==
  /\ procs[q].pc = "restoreWriteTodos"
  /\ todos' = procs[q].todos
  /\ procs' = [procs EXCEPT ![q].pc = "restoreWriteHistory"]
  /\ UNCHANGED <<history, now, nextId, res, disk>>

\* await writeHistory(history); return
RestoreWriteHistory(q) ==
  /\ procs[q].pc = "restoreWriteHistory"
  /\ history' = procs[q].history
  /\ procs' = [procs EXCEPT ![q] = Idle]
  /\ res' = [op |-> "restoreTodoById", err |-> "", id |-> procs[q].id, n |-> 1]
  /\ UNCHANGED <<todos, now, nextId, disk>>

\* The process is stopped in the middle of its operation.
Stop(q) ==
  /\ procs[q].pc # "idle"
  /\ procs' = [procs EXCEPT ![q] = Idle]
  /\ res' = [op |-> "stopped", err |-> procs[q].pc, id |-> procs[q].id, n |-> 0]
  /\ UNCHANGED <<todos, history, now, nextId, disk>>

\* ------------------------------------------------------- the inputs drawn
NoDate == [valid |-> FALSE, t |-> 0]

Filter(keys, category, untagged) ==
  [keys |-> keys, category |-> category, subcategory |-> "", untagged |-> untagged,
   currentProject |-> FALSE, dateFrom |-> NoDate, dateTo |-> NoDate, searchText |-> <<>>]

\* {} and a filter whose only key is not a filter key.
EmptyFilter == Filter({}, "", FALSE)
UnknownKeyFilter == Filter({"includeIndices"}, "", FALSE)
ZeroKeyFilters == {EmptyFilter, UnknownKeyFilter}

\* {currentProject: true}
CurrentProjectFilter == [Filter({"currentProject"}, "", FALSE) EXCEPT !.currentProject = TRUE]

\* A date string of a filter: a calendar date YYYY-MM-DD (kind "day"), a full
\* ISO timestamp (kind "instant") or a text that is no date (kind "text").
DateStrings ==
  {[kind |-> "day", day |-> d, t |-> 0] : d \in 0..(MaxTime \div DayLen)}
  \cup {[kind |-> "instant", day |-> 0, t |-> t] : t \in {1, MaxTime - 1}}
  \cup {[kind |-> "text", day |-> 0, t |-> 0]}

\* new Date(string): a calendar date parses to the first instant of its day
\* (the zone of the process taken as UTC), a timestamp to its instant, and
\* anything else to an invalid date.
newDate(d) ==
  IF d.kind = "day" THEN [valid |-> TRUE, t |-> d.day * DayLen]
  ELSE IF d.kind = "instant" THEN [valid |-> TRUE, t |-> d.t]
  ELSE NoDate

\* {dateFrom: from}, {dateTo: to} or both, by the keys.
DateFilter(keys, from, to) ==
  [Filter(keys, "", FALSE) EXCEPT !.dateFrom = newDate(from), !.dateTo = newDate(to)]

DateFilters ==
  {DateFilter({k}, d, d) : k \in {"dateFrom", "dateTo"}, d \in DateStrings}

\* A history operation by filter, and clearHistory() without one.
ByFilter(f) == [kind |-> "filter", id |-> 0, ids |-> <<>>, filter |-> f]
NoFilter == [kind |-> "none", id |-> 0, ids |-> <<>>, filter |-> EmptyFilter]

\* A call over a list of ids.
ByIds(l) == [kind |-> "ids", id |-> 0, ids |-> l, filter |-> EmptyFilter]

\* Filters holding up to two of the seven predicates, each with a value that
\* restricts.
Predicates ==
  {[keys |-> K, category |-> "a", subcategory |-> "x", untagged |-> TRUE,
    currentProject |-> TRUE, dateFrom |-> newDate([kind |-> "instant", day |-> 0, t |-> 1]),
    dateTo |-> newDate([kind |-> "instant", day |-> 0, t |-> 1]), searchText |-> <<"T">>] :
     K \in {K \in SUBSET RecognisedKeys : Cardinality(K) <= 2}}

\* Task strings of the filtered collections.
FilteredStrings == { <<"t">>, <<"a", "/", "x", "::", "u">>, <<"b", "::", "T">> }

FilterInputs ==
  ZeroKeyFilters
  \cup {Filter({"category"}, "a", FALSE), Filter({"untagged"}, "", TRUE), CurrentProjectFilter}

IdLists == {<<>>} \cup {<<i>> : i \in IdInputs} \cup {<<1, 2>>, <<MaxIds + 1, 1>>}

Selectors ==
  {[kind |-> "ids", ids |-> l, filter |-> EmptyFilter] : l \in IdLists}
  \cup {[kind |-> k, ids |-> <<>>, filter |-> f] : k \in {"filter", "bare"}, f \in FilterInputs}

ToolArgs ==
  {[kind |-> "id", id |-> i, ids |-> <<>>, filter |-> EmptyFilter] : i \in IdInputs}
  \cup {[kind |-> "ids", id |-> 0, ids |-> l, filter |-> EmptyFilter] : l \in IdLists}
  \cup {[kind |-> "filter", id |-> 0, ids |-> <<>>, filter |-> f] : f \in FilterInputs}
  \cup {[kind |-> "none", id |-> 0, ids |-> <<>>, filter |-> EmptyFilter]}

Updates(has, category, subcategory) ==
  [has |-> has, task |-> <<"u">>, category |-> category, subcategory |-> subcategory]

UpdateInputs ==
  { Updates({}, Null, Null), Updates({"task"}, Null, Null),
    Updates({"category"}, Null, Null), Updates({"category"}, "b", Null),
    Updates({"subcategory"}, Null, Null), Updates({"subcategory"}, Null, "x") }

\* The updates drawn where the clock runs too.
FewUpdates ==
  { Updates({}, Null, Null), Updates({"category"}, Null, Null),
    Updates({"subcategory"}, Null, "x") }

Indexes == 0..(MaxIds + 1)

Item(s) == [kind |-> "string", task |-> s, auto |-> Undef, override |-> Undef]
BulkInputs ==
  {<<>>} \cup {<<Item(s)>> : s \in TaskStrings}
  \cup {<<Item(<<"t">>), Item(s)>> : s \in TaskStrings}
  \cup {<<Item(s), Item(<<"t">>)>> : s \in TaskStrings}

\* The library's operations by id, the history query and the clock.
Next ==
  \/ Tick
  \/ Return
  \/ \E s \in TaskStrings, auto \in BOOLEAN, p \in Projects : AddTodo(s, auto, Null, p)
  \/ \E items \in BulkInputs, p \in Projects : BulkAdd(items, Undef, Null, p)
  \/ \E id \in IdInputs : RemoveTodoById(id)
  \/ \E id \in IdInputs : CompleteTodoById(id)
  \/ \E id \in IdInputs : RestoreTodoById(id)
  \/ \E id \in IdInputs, u \in FewUpdates : UpdateTodoById(id, u)
  \/ \E f \in BOOLEAN, p \in Projects : QueryHistory(f, p)
  \/ \E f \in BOOLEAN, p \in Projects : ClearTodos(f, p)
  \/ \E a \in ToolArgs : a.kind = "id" /\ RestoreTodosTool(a, Null)

Spec == Init /\ [][Next]_vars

\* The operations addressed by a selector: the bulk operations of the library
\* and the tool handlers, on collections filled by add and complete.
NextSel ==
  \/ Return
  \/ \E s \in TaskStrings, p \in Projects : AddTodo(s, TRUE, Null, p)
  \/ \E id \in IdInputs : CompleteTodoById(id)
  \/ \E sel \in Selectors, u \in UpdateInputs : BulkUpdate(sel, u, Null)
  \/ \E sel \in Selectors : BulkDelete(sel, Null)
  \/ \E a \in ToolArgs : RemoveTodosTool(a, Null)
  \/ \E a \in ToolArgs, u \in UpdateInputs : UpdateTodosTool(a, u, Null)
  \/ \E a \in ToolArgs : CompleteTodosTool(a, Null)
  \/ \E a \in ToolArgs : RestoreTodosTool(a, Null)

SelSpec == Init /\ [][NextSel]_vars

\* The operations addressed by a display index.
NextIdx ==
  \/ Return
  \/ \E s \in TaskStrings, p \in Projects : AddTodo(s, TRUE, Null, p)
  \/ \E i \in Indexes, f \in BOOLEAN, p \in Projects : RemoveTodo(i, f, p)
  \/ \E i \in Indexes, f \in BOOLEAN, p \in Projects : CompleteTodo(i, f, p)
  \/ \E i \in Indexes, f \in BOOLEAN, p \in Projects : RestoreTodo(i, f, p)
  \/ \E i \in Indexes, u \in UpdateInputs, f \in BOOLEAN, p \in Projects :
       UpdateTodo(i, u, f, p)

IdxSpec == Init /\ [][NextIdx]_vars

\* The additions, with every depth of category and every source of the
\* project name.
NextAdd ==
  \/ Return
  \/ \E s \in AddStrings, auto \in BOOLEAN, ov \in {Null, "b"}, p \in Projects :
       AddTodo(s, auto, ov, p)
  \/ \E items \in BulkInputs, p \in Projects : BulkAdd(items, Undef, Null, p)
  \/ \E id \in IdInputs : RemoveTodoById(id)

AddSpec == Init /\ [][NextAdd]_vars

\* The parser of task strings, applied to each input.
NextParse ==
  \/ Return
  \/ \E s \in ParseInputs : FromString(s)

ParseSpec == Init /\ [][NextParse]_vars

\* The filters: over the active todos and over the ledger, with the clock
\* running between the additions and the completions.
NextFlt ==
  \/ Return
  \/ Tick
  \/ \E s \in FilteredStrings : AddTodo(s, FALSE, Null, Null)
  \/ \E id \in IdInputs : CompleteTodoById(id)
  \/ \E f \in DateFilters \cup Predicates, p \in Projects : FilterTodos(f, p)
  \/ \E f \in DateFilters : UpdateHistory(ByFilter(f), Updates({"task"}, Null, Null))
  \/ \E f \in DateFilters : RemoveFromHistory(ByFilter(f))
  \/ \E sel \in {ByFilter(f) : f \in DateFilters} \cup {NoFilter} : ClearHistory(sel)
  \/ \E f \in DateFilters : RestoreTodosTool(ByFilter(f), Null)

FltSpec == Init /\ [][NextFlt]_vars

\* The ledger: every operation that reads and writes it, with the clock
\* running.
HistoryArgs ==
  {[kind |-> "id", id |-> i, ids |-> <<>>, filter |-> EmptyFilter] : i \in IdInputs}
  \cup {ByIds(<<1, 2>>), ByIds(<<>>)}
  \cup {ByFilter(f) : f \in ZeroKeyFilters}
  \cup {ByFilter(Filter({"untagged"}, "", TRUE)),
        ByFilter(DateFilter({"dateTo"}, [kind |-> "instant", day |-> 0, t |-> 1],
                            [kind |-> "instant", day |-> 0, t |-> 1]))}

NextHist ==
  \/ Return
  \/ Tick
  \/ AddTodo(<<"t">>, FALSE, Null, Null)
  \/ \E id \in IdInputs : CompleteTodoById(id)
  \/ \E id \in IdInputs : RestoreTodoById(id)
  \/ QueryHistory(FALSE, Null)
  \/ \E a \in HistoryArgs : UpdateHistory(a, Updates({"task"}, Null, Null))
  \/ \E a \in HistoryArgs : RemoveFromHistory(a)
  \/ \E a \in {NoFilter, ByFilter(Filter({"untagged"}, "", TRUE))} : ClearHistory(a)

HistSpec == Init /\ [][NextHist]_vars

\* The removals, with a ledger that holds entries and a clock that runs.
NextRem ==
  \/ Return
  \/ Tick
  \/ \E s \in TaskStrings, p \in Projects : AddTodo(s, TRUE, Null, p)
  \/ \E id \in IdInputs : CompleteTodoById(id)
  \/ \E id \in IdInputs : RemoveTodoById(id)
  \/ \E i \in Indexes, f \in BOOLEAN, p \in Projects : RemoveTodo(i, f, p)
  \/ \E sel \in Selectors : BulkDelete(sel, Null)

RemSpec == Init /\ [][NextRem]_vars

\* The updates, of active todos and of ledger entries.
NextUpd ==
  \/ Return
  \/ \E s \in TaskStrings, p \in Projects : AddTodo(s, TRUE, Null, p)
  \/ \E id \in IdInputs : CompleteTodoById(id)
  \/ \E id \in IdInputs, u \in UpdateInputs : UpdateTodoById(id, u)
  \/ \E i \in Indexes, u \in UpdateInputs, f \in BOOLEAN, p \in Projects :
       UpdateTodo(i, u, f, p)
  \/ \E sel \in Selectors, u \in UpdateInputs : BulkUpdate(sel, u, Null)
  \/ \E a \in ToolArgs, u \in UpdateInputs : UpdateHistory(a, u)

UpdSpec == Init /\ [][NextUpd]_vars

\* Processes writing one collection file while another reads it.
NextFs ==
  \/ Return
  \/ \E v \in Writers : WriteFileOpen(v)
  \/ \E v \in Writers : WriteFileChunk(v)
  \/ \E v \in Writers : RenameTemp(v)
  \/ ReadFile

FsSpec == Init /\ [][NextFs]_vars

\* One process that may be stopped between two awaits of a complete or of a
\* restore.
NextStop ==
  \/ Tick
  \/ Return
  \/ \E s \in TaskStrings, p \in Projects :
       (\A q \in Procs : procs[q].pc = "idle") /\ AddTodo(s, TRUE, Null, p)
  \/ \E q \in Stopped, id \in IdInputs : CompleteReadTodos(q, id)
  \/ \E q \in Stopped : CompleteReadHistory(q)
  \/ \E q \in Stopped : CompleteWriteTodos(q)
  \/ \E q \in Stopped : CompleteWriteHistory(q)
  \/ \E q \in Stopped, id \in IdInputs : RestoreReadHistory(q, id)
  \/ \E q \in Stopped : RestoreReadTodos(q)
  \/ \E q \in Stopped : RestoreWriteTodos(q)
  \/ \E q \in Stopped : RestoreWriteHistory(q)
  \/ \E q \in Stopped : Stop(q)

StopSpec == Init /\ [][NextStop]_vars

\* Two processes adding to the same collection, with the clock running.
NextRace ==
  \/ Tick
  \/ \E q \in Procs, s \in {<<"t">>, TwoLevels} : AddRead(q, s)
  \/ \E q \in Procs : AddWrite(q)
  \/ \E q \in Procs : AddExit(q)

RaceSpec == Init /\ [][NextRace]_vars

\* Filters whose recognised keys all carry a value no test of filterTodos
\* acts on: {untagged: false}, {category: ""}, {currentProject: false} and the
\* three together.
InactiveFilters ==
  { Filter({"untagged"}, "", FALSE), Filter({"category"}, "", FALSE),
    Filter({"currentProject"}, "", FALSE),
    Filter({"untagged", "category", "currentProject"}, "", FALSE) }

\* The selector object itself carrying the keys.
InactiveSelectors ==
  { [kind |-> "bare", ids |-> <<>>, filter |-> f] : f \in InactiveFilters }

\* Bulk mutations by such selectors, over collections of every mix of tasks.
NextInactive ==
  \/ Return
  \/ \E s \in TaskStrings, p \in Projects : AddTodo(s, TRUE, Null, p)
  \/ \E sel \in InactiveSelectors, p \in Projects : BulkDelete(sel, p)
  \/ \E sel \in InactiveSelectors, u \in UpdateInputs, p \in Projects :
       BulkUpdate(sel, u, p)

InactiveSpec == Init /\ [][NextInactive]_vars

\* ------------------------------------------- queryHistory, await by await
\* await readHistory(); clearHistoryIfNewDay in memory; with entries left the
\* query returns, with none it goes on to write. The id kept by the process
\* is 1 when the lazy clear emptied the ledger it read (a rollover), else 0.
QueryRead(q) ==
  /\ procs[q].pc = "idle"
  /\ LET read == readHistory(history, now)
         hist == clearHistoryIfNewDay(read, now)
     IN procs' = IF Len(hist.completed) = 0
                 THEN [procs EXCEPT ![q] = [pc |-> "queryWrite",
                                            id |-> IF hist # read THEN 1 ELSE 0,
                                            todos |-> <<>>,
                                            history |-> writeHistory(hist)]]
                 ELSE procs
  /\ UNCHANGED <<todos, history, now, nextId, res, disk>>

\* await writeHistory(history); return
QueryWrite(q) ==
  /\ procs[q].pc = "queryWrite"
  /\ history' = procs[q].history
  /\ procs' = [procs EXCEPT ![q] = Idle]
  /\ UNCHANGED <<todos, now, nextId, res, disk>>

\* One process completes while another queries the ledger.
Querying == {2}

NextQuery ==
  \/ Tick
  \/ Return
  \/ \E s \in {<<"t">>, TwoLevels} :
       (\A q \in Procs : procs[q].pc = "idle") /\ AddTodo(s, FALSE, Null, Null)
  \/ \E q \in Stopped, id \in IdInputs : CompleteReadTodos(q, id)
  \/ \E q \in Stopped : CompleteReadHistory(q)
  \/ \E q \in Stopped : CompleteWriteTodos(q)
  \/ \E q \in Stopped : CompleteWriteHistory(q)
  \/ \E q \in Querying : QueryRead(q)
  \/ \E q \in Querying : QueryWrite(q)

QuerySpec == Init /\ [][NextQuery]_vars

\* ------------------------------------------------- migrate-add-ids.js
\* The files an earlier version left behind: records whose id is missing
\* (0: `!todo.id` holds) beside records that have one.
LegacyRecords ==
  { [id |-> i, category |-> c, subcategory |-> Null, task |-> <<"t">>, added |-> 0] :
      i \in 0..MaxIds, c \in {Null, "x"} }

LegacyLists ==
  { l \in {<<>>} \cup { <<a>> : a \in LegacyRecords }
            \cup { <<a, b>> : a, b \in LegacyRecords } :
      \A i, j \in 1..Len(l) : (i # j /\ l[i].id # 0) => l[i].id # l[j].id }

RECURSIVE addIdsAll(_, _)
\* The loop that hands a new id to every record.
addIdsAll(list, used) ==
  IF Len(list) = 0
  THEN [list |-> <<>>, used |-> used, migrated |-> 0, skipped |-> 0]
  ELSE LET rest == addIdsAll(Tail(list), used + 1)
       IN [rest EXCEPT !.list = <<[Head(list) EXCEPT !.id = randomUUID(used)]>> \o @,
                       !.migrated = @ + 1]

RECURSIVE addIds(_, _)
\* for (const todo of todos) { if (!todo.id) { todo.id = randomUUID();
\* migrated++ } else { skipped++ } }; used counts the ids handed out.
addIds(list, used) ==
  IF Len(list) = 0
  THEN [list |-> <<>>, used |-> used, migrated |-> 0, skipped |-> 0]
  ELSE LET todo == Head(list)
       IN IF todo.id = 0
          THEN LET rest == addIds(Tail(list), used + 1)
               IN [rest EXCEPT !.list = <<[todo EXCEPT !.id = randomUUID(used)]>> \o @,
                               !.migrated = @ + 1]
          ELSE LET rest == addIds(Tail(list), used)
               IN [rest EXCEPT !.list = <<todo>> \o @, !.skipped = @ + 1]

\* migrateFile(filePath, fileType) over a file that holds list (for the
\* ledger, under completed): a missing file is left alone, and the file is
\* written only when a record got an id.
migrateFile(exists, list, used) ==
  LET r == addIds(list, used)
  IN IF ~exists
     THEN [list |-> list, used |-> used, migrated |-> 0, skipped |-> 0, wrote |-> FALSE]
     ELSE [list |-> IF r.migrated > 0 THEN r.list ELSE list, used |-> r.used,
           migrated |-> r.migrated, skipped |-> r.skipped, wrote |-> r.migrated > 0]

\* main(): the active file, then the ledger. The result holds the totals it
\* prints (n migrated, id skipped) and how many files were written.
MigrateAddIds ==
  /\ Ready
  /\ LET a == migrateFile(TRUE, todos, nextId)
         b == migrateFile(history.exists, history.completed, a.used)
     IN /\ todos' = a.list
        /\ history' = [history EXCEPT !.completed = b.list]
        /\ nextId' = b.used
        /\ res' = [op |-> "migrate", err |-> "", id |-> a.skipped + b.skipped,
                   n |-> a.migrated + b.migrated,
                   written |-> (IF a.wrote THEN 1 ELSE 0) + (IF b.wrote THEN 1 ELSE 0)]
  /\ UNCHANGED <<now, procs, disk>>

\* The migration starts on files written before ids existed or since.
MigInit ==
  /\ todos \in LegacyLists
  /\ history \in {NoHistoryFile} \cup
       { [exists |-> TRUE, completed |-> c, lastCleared |-> 0] :
           c \in { <<>> } \cup { <<Stamp(a, 0)>> : a \in LegacyRecords } }
  /\ \A i \in 1..Len(todos), j \in 1..Len(history.completed) :
       todos[i].id # 0 => todos[i].id # history.completed[j].id
  /\ now = 0
  /\ nextId = MaxIds
  /\ res = NoResult
  /\ procs = [q \in Procs |-> Idle]
  /\ disk = NoFiles

NextMig ==
  \/ Return
  \/ MigrateAddIds

MigSpec == MigInit /\ [][NextMig]_vars

\* ------------------------------------------------------------- claims

\* C1: in completeTodoById the ledger with the new entry is persisted before
\* the active collection without the task, so a process stopped between the
\* two writes of a complete leaves the task in at least one of the two files.
C1_StoppedCompleteKeepsTask ==
  (res.op = "stopped" /\ res.err \in {"writeTodos", "writeHistory"})
    => res.id \in Ids(todos) \cup Ids(history.completed)

\* C2: a bulk mutation (bulkUpdate, bulkDelete, the remove, complete, update
\* and restore tools) called with a filter that has no recognised key fails
\* with InvalidSelector and leaves both collections unchanged.
C2_ZeroKeyFilterRejected ==
  [][\A f \in ZeroKeyFilters, u \in UpdateInputs \ {Updates({}, Null, Null)} :
       LET sel == [kind |-> "filter", ids |-> <<>>, filter |-> f]
           args == [kind |-> "filter", id |-> 0, ids |-> <<>>, filter |-> f]
       IN (\/ BulkDelete(sel, Null)
           \/ BulkUpdate(sel, u, Null)
           \/ RemoveTodosTool(args, Null)
           \/ UpdateTodosTool(args, u, Null)
           \/ CompleteTodosTool(args, Null)
           \/ RestoreTodosTool(args, Null))
          => (res'.err = "InvalidSelector" /\ todos' = todos /\ history' = history)]_vars

\* C3: after any sequence of add, bulkAdd, update, remove, complete, restore,
\* clear and history-rollover operations run one at a time, no two records of
\* the active collection and the ledger taken together share an id.
C3_IdsUnique ==
  Cardinality(Ids(todos) \cup Ids(history.completed))
    = Len(todos) + Len(history.completed)

\* A task went to the ledger and came back while another one is active.
C3_Witness ==
  /\ res.op = "restoreTodoById" /\ res.err = ""
  /\ Len(todos) = 2 /\ todos[2].id = 1

\* The instants of the local calendar day of t, from t on.
RestOfDay(t) == {t2 \in t..MaxTime : LocaleDate(t2) = LocaleDate(t)}

\* C4: after complete(X), X is not in the active collection and a history
\* query on the same local day returns X with completedAt set; after a
\* restore(X.id), X is in the active collection and a history query no longer
\* returns X.
C4_CompleteThenRestore ==
  [][\A id \in IdInputs :
       /\ (res'.op = "completeTodoById" /\ res'.err = "" /\ CompleteTodoById(id))
            => /\ id \notin Ids(todos')
               /\ \A t2 \in RestOfDay(now), f \in BOOLEAN :
                    \E i \in DOMAIN queryHistory(history', f, Null, t2).out :
                      LET e == queryHistory(history', f, Null, t2).out[i]
                      IN e.id = id /\ e.completedAt = now
       /\ (res'.op = "restoreTodoById" /\ res'.err = "" /\ RestoreTodoById(id))
            => /\ id \in Ids(todos')
               /\ \A t2 \in now..MaxTime, f \in BOOLEAN, p \in Projects :
                    id \notin Ids(queryHistory(history', f, p, t2).out)]_vars

\* A completed task is back in the active collection, the ledger file kept.
C4_Witness ==
  /\ res.op = "restoreTodoById" /\ res.err = ""
  /\ res.id \in Ids(todos) /\ history.exists /\ now > 0

\* C5: complete(T.id) followed by restore(T.id) on the same local day yields
\* an active task with T's id, createdAt (added), text and category levels and
\* without completedAt.
C5_CompleteRestoreRoundTrip ==
  \A i \in DOMAIN todos, t2 \in RestOfDay(now) :
    LET T == todos[i]
        c == completeTodoById(todos, history, T.id, now)
        r == restoreTodoById(c.todos, c.history, T.id, t2)
    IN /\ c.err = "" /\ r.err = ""
       /\ r.todos[Len(r.todos)] = T
       /\ DOMAIN r.todos[Len(r.todos)] = DOMAIN T
       /\ T.id \notin Ids(SubSeq(r.todos, 1, Len(r.todos) - 1))

\* A categorised task completed and restored on one day, after its day of
\* creation.
C5_Witness ==
  /\ res.op = "restoreTodoById" /\ res.err = ""
  /\ Len(todos) > 0 /\ todos[Len(todos)].id = res.id
  /\ todos[Len(todos)].category # Null /\ todos[Len(todos)].added < now

\* C6: two history queries on one local calendar day return the same entries
\* and the second clears nothing; the first query on a day other than that of
\* lastCleared empties the ledger, sets lastCleared to now and persists it.
C6_RolloverIdempotent ==
  [][\A f \in BOOLEAN, p \in Projects :
       (res'.op = "queryHistory" /\ QueryHistory(f, p)) =>
         /\ \A t2 \in RestOfDay(now) :
              /\ queryHistory(history', f, p, t2).out = queryHistory(history, f, p, now).out
              /\ queryHistory(history', f, p, t2).history = history'
         /\ (history.exists /\ LocaleDate(now) # LocaleDate(history.lastCleared))
              => history' = [exists |-> TRUE, completed |-> <<>>, lastCleared |-> now]
         /\ (history.exists /\ LocaleDate(now) = LocaleDate(history.lastCleared))
              => history' = history]_vars

\* A query saw the ledger cleared two days after the file was first written,
\* with a task completed in between.
C6_Witness ==
  /\ res.op = "queryHistory" /\ res.n = 0
  /\ history.exists /\ history.completed = <<>> /\ history.lastCleared = now
  /\ LocaleDate(now) = 2 /\ nextId > 0 /\ todos = <<>>

\* C7: restore resolves its id against the ledger after the lazy rollover:
\* on a day other than that of lastCleared, restore(id) of an entry completed
\* earlier fails with NotFound and puts nothing into the active collection.
C7_RestoreAfterRollover ==
  [][\A id \in IdInputs, a \in ToolArgs :
       (/\ history.exists /\ LocaleDate(now) # LocaleDate(history.lastCleared)
        /\ (RestoreTodoById(id) \/ (a.kind = "id" /\ RestoreTodosTool(a, Null))))
       => (res'.err = "NotFound" /\ todos' = todos)]_vars

\* C8: after any sequence of add and update operations every stored task has
\* a non-sparse category path: a subcategory implies a category.
C8_NoSparsePath ==
  \A i \in DOMAIN todos : Truthy(todos[i].subcategory) => Truthy(todos[i].category)

\* C9: remove, complete and update by 1-based index act on the task the list
\* display of the same scope shows with that number.
C9_IndexIsDisplayedNumber ==
  [][\A i \in Indexes, f \in BOOLEAN, p \in Projects, u \in UpdateInputs :
       ((RemoveTodo(i, f, p) \/ CompleteTodo(i, f, p) \/ UpdateTodo(i, u, f, p))
          /\ res'.err = "")
       => (i \in DOMAIN displayTodos(todos, f, p)
           /\ res'.id = displayTodos(todos, f, p)[i].id)]_vars

\* C10: update, remove, complete and restore addressed by one id that is not
\* in the targeted collection fail with NotFound naming the id and change
\* neither collection.
C10_MissingIdIsNotFound ==
  [][\A a \in ToolArgs, u \in UpdateInputs \ {Updates({}, Null, Null)} :
       /\ (a.kind = "id" /\ a.id \notin Ids(todos)
             /\ (\/ RemoveTodosTool(a, Null) \/ UpdateTodosTool(a, u, Null)
                 \/ CompleteTodosTool(a, Null)
                 \/ RemoveTodoById(a.id) \/ UpdateTodoById(a.id, u)
                 \/ CompleteTodoById(a.id)))
            => (res'.err = "NotFound" /\ res'.id = a.id
                /\ todos' = todos /\ history' = history)
       /\ (a.kind = "id" /\ a.id \notin Ids(history.completed)
             /\ (RestoreTodosTool(a, Null) \/ RestoreTodoById(a.id)))
            => (res'.err = "NotFound" /\ res'.id = a.id
                /\ todos' = todos /\ history' = history)]_vars

\* C11: a filter with currentProject = true matches no task when
\* detectProjectName returns null: filterTodos returns nothing for it, and a
\* bulk remove, update or complete by that filter changes neither collection.
C11_UnresolvedProjectMatchesNothing ==
  [][\A u \in UpdateInputs \ {Updates({}, Null, Null)} :
       LET sel == [kind |-> "filter", ids |-> <<>>, filter |-> CurrentProjectFilter]
           args == [kind |-> "filter", id |-> 0, ids |-> <<>>, filter |-> CurrentProjectFilter]
       IN (\/ BulkDelete(sel, Null)
           \/ BulkUpdate(sel, u, Null)
           \/ RemoveTodosTool(args, Null)
           \/ UpdateTodosTool(args, u, Null)
           \/ CompleteTodosTool(args, Null))
          => (/\ filterTodos(todos, CurrentProjectFilter, Null) = <<>>
              /\ todos' = todos /\ history' = history)]_vars

\* C12: a reader of a collection file never observes a partially written
\* file, also while other processes are executing writeTodos / writeHistory on
\* that file: every read returns a whole written value or the empty default.
C12_ReaderSeesWholeFile ==
  res.op = "readFile" => res.err = ""

\* C13: moving a record between the two collections is exactly-once: in every
\* persisted state reached by complete and restore, a process stop allowed
\* between any two file writes, no id is in both the active collection and
\* the ledger.
C13_NoIdInBothCollections ==
  Ids(todos) \cap Ids(history.completed) = {}

\* C14: restoreTodoById writes the active collection with the restored task
\* before the ledger without its entry, so between the two writes the task is
\* in the active collection, and a process stopped there leaves the task in
\* at least one of the two files.
C14_StoppedRestoreKeepsTask ==
  /\ \A q \in Procs :
       procs[q].pc = "restoreWriteHistory"
         => (procs[q].id \in Ids(todos) /\ procs[q].id \in Ids(history.completed))
  /\ (res.op = "stopped" /\ res.err \in {"restoreWriteTodos", "restoreWriteHistory"})
       => res.id \in Ids(todos) \cup Ids(history.completed)

\* A restore was stopped after its write of the todos, on a later day than
\* the completion.
C14_Witness ==
  /\ res.op = "stopped" /\ res.err = "restoreWriteHistory"
  /\ res.id \in Ids(todos)
  /\ LocaleDate(now) > LocaleDate(history.lastCleared)

\* The selectors and tool arguments without a target: {ids: []}, a selector
\* object with no ids, no filter and no filter key of its own, tool arguments
\* with none of id, ids and filter.
NoTargetSelectors ==
  {sel \in Selectors : \/ (sel.kind = "ids" /\ Len(sel.ids) = 0)
                        \/ (sel.kind = "bare" /\ sel.filter.keys \cap RecognisedKeys = {})}
NoTargetArgs ==
  {a \in ToolArgs : (a.kind = "ids" /\ Len(a.ids) = 0) \/ a.kind = "none"}

C16_EmptyPatchRejected ==
  [][LET none == Updates({}, Null, Null)
         Refused == res'.err = "EmptyPatch" /\ todos' = todos /\ history' = history
     IN /\ res'.op = "updateTodoById" =>
             \A id \in IdInputs : UpdateTodoById(id, none) => Refused
        /\ res'.op = "updateTodo" =>
             \A i \in Indexes, f \in BOOLEAN, p \in Projects :
               UpdateTodo(i, none, f, p) => Refused
        /\ res'.op = "bulkUpdate" =>
             \A sel \in Selectors : BulkUpdate(sel, none, Null) => Refused
        /\ res'.op = "updateHistory" =>
             \A a \in ToolArgs : UpdateHistory(a, none) => Refused]_vars

\* updateHistory refused an empty patch where a write would have created the
\* ledger file.
C16_Witness ==
  /\ res.op = "updateHistory" /\ res.err = "EmptyPatch"
  /\ ~history.exists /\ Len(todos) > 0

\* C17: update changes exactly what the patch names: in every matched task
\* each field present in the patch takes the patch value (null clears a
\* category level), each absent field keeps its value, id and added never
\* change; every task not matched is unchanged, and so is the ledger.
C17_UpdateFrame ==
  [][\A u \in UpdateInputs \ {Updates({}, Null, Null)} :
       LET Patched(old, new) ==
             /\ DOMAIN new = DOMAIN old
             /\ new.id = old.id /\ new.added = old.added
             /\ new.task = (IF "task" \in u.has THEN u.task ELSE old.task)
             /\ new.category = (IF "category" \in u.has THEN u.category ELSE old.category)
             /\ new.subcategory =
                  (IF "subcategory" \in u.has THEN u.subcategory ELSE old.subcategory)
           Frame(matched) ==
             /\ Len(todos') = Len(todos)
             /\ \A i \in DOMAIN todos :
                  IF todos[i].id \in matched
                  THEN Patched(todos[i], todos'[i])
                  ELSE todos'[i] = todos[i]
             /\ history' = history
       IN /\ (res'.op = "updateTodoById" /\ res'.err = "") =>
               \A id \in IdInputs : UpdateTodoById(id, u) => Frame({id})
          /\ (res'.op = "updateTodo" /\ res'.err = "") =>
               \A i \in Indexes, f \in BOOLEAN, p \in Projects :
                 UpdateTodo(i, u, f, p) =>
                   (i \in DOMAIN readTodos(todos, f, p) /\ Frame({readTodos(todos, f, p)[i].id}))
          /\ (res'.op = "bulkUpdate" /\ res'.err = "") =>
               \A sel \in Selectors :
                 BulkUpdate(sel, u, Null) =>
                   Frame(IF sel.kind = "ids" THEN SeqToSet(sel.ids)
                         ELSE {todos[i].id : i \in {j \in DOMAIN todos :
                                                     MatchesFilter(todos[j], sel.filter, Null)}})]_vars

\* A bulk update gave one of two tasks the category b and left its
\* subcategory x; the other task has another category.
C17_Witness ==
  /\ res.op = "bulkUpdate" /\ res.err = "" /\ res.n = 1
  /\ Len(todos) = 2
  /\ \E i, j \in DOMAIN todos :
       /\ todos[i].category = "b" /\ todos[i].subcategory = "x"
       /\ todos[j].category # "b"

\* C18: add with auto-project on and a project name P (the override, else
\* what detectProjectName returns): a parsed category of 0 or 1 levels is
\* stored as P followed by the parsed levels; with 2 or more levels, or
\* auto-project off, or no project name, the stored path is the parsed levels.
C18_AutoProjectPrefix ==
  [][\A s \in AddStrings, auto \in BOOLEAN, ov \in {Null, "b"}, p \in Projects :
       (res'.op = "addTodo" /\ res'.err = "" /\ AddTodo(s, auto, ov, p)) =>
         LET parsed == fromString(s, MAX_CATEGORY_DEPTH).parts
             P == IF Truthy(ov) THEN ov ELSE p
         IN fromStorage(todos'[Len(todos')]) =
              (IF auto /\ Truthy(P) /\ Len(parsed) <= 1 THEN <<P>> \o parsed ELSE parsed)]_vars

\* C19: a task added with three well-formed category levels ("a/b/x::t") is
\* stored, and read back by readTodos and filterTodos, with a category path
\* of exactly those three levels in order.
C19_ThreeLevelsStored ==
  [][\A auto \in BOOLEAN, ov \in {Null, "b"}, p \in Projects :
       (res'.op = "addTodo" /\ AddTodo(ThreeLevels, auto, ov, p)) =>
         /\ res'.err = ""
         /\ fromStorage(todos'[Len(todos')]) = <<"a", "b", "x">>
         /\ \E i \in DOMAIN filterTodos(todos', Filter({"category"}, "a", FALSE), Null) :
              /\ filterTodos(todos', Filter({"category"}, "a", FALSE), Null)[i].id = res'.id
              /\ fromStorage(filterTodos(todos', Filter({"category"}, "a", FALSE), Null)[i])
                   = <<"a", "b", "x">>]_vars

C21_RoundTrip ==
  res.op = "fromString" =>
    /\ \A pre \in Prefixes, text \in Texts :
         res.input = pre \o <<"::">> \o text =>
           res.parts # <<>> /\ toString(res) = pre /\ res.task = text
    /\ res.input \in NoColonStrings => res.parts = <<>> /\ toString(res) = Null

\* A filter one of whose date bounds does not parse.
BadDate(f) ==
  \/ ("dateFrom" \in f.keys /\ ~f.dateFrom.valid)
  \/ ("dateTo" \in f.keys /\ ~f.dateTo.valid)

\* C22: a call by filter whose dateFrom or dateTo is no date fails with
\* InvalidFilter, over the active tasks (filterTodos) as over the ledger
\* (updateHistory, removeFromHistory, clearHistory, restore_todos).
C22_BadDateRejected ==
  [][\A f \in {g \in DateFilters : BadDate(g)} :
       /\ (res'.op = "filterTodos" /\ FilterTodos(f, Null)) => res'.err = "InvalidFilter"
       /\ (res'.op = "updateHistory"
             /\ UpdateHistory(ByFilter(f), Updates({"task"}, Null, Null))) =>
            res'.err = "InvalidFilter"
       /\ (res'.op = "removeFromHistory" /\ RemoveFromHistory(ByFilter(f))) =>
            res'.err = "InvalidFilter"
       /\ (res'.op = "clearHistory" /\ ClearHistory(ByFilter(f))) =>
            res'.err = "InvalidFilter"
       /\ (res'.op = "restore_todos" /\ RestoreTodosTool(ByFilter(f), Null)) =>
            res'.err = "InvalidFilter"]_vars

\* The date bounds of a filter, both inclusive, on an instant.
InBounds(t, f) ==
  /\ "dateFrom" \in f.keys => t >= f.dateFrom.t
  /\ "dateTo" \in f.keys => t <= f.dateTo.t

\* The ids of the entries whose completedAt is within the bounds.
CompletedWithin(list, f) ==
  {list[i].id : i \in {j \in 1..Len(list) : InBounds(list[j].completedAt, f)}}

\* C23: a filter applied to ledger entries bounds completedAt with dateFrom
\* and dateTo: restore_todos by filter restores, removeFromHistory and
\* clearHistory by filter remove, and updateHistory by filter updates, the
\* entries whose completedAt is within the bounds, and no other.
C23_HistoryDatesOnCompletedAt ==
  [][\A f \in {g \in DateFilters : ~BadDate(g)} :
       /\ (res'.op = "restore_todos" /\ RestoreTodosTool(ByFilter(f), Null)) =>
            Ids(todos') \ Ids(todos) =
              CompletedWithin(clearHistoryIfNewDay(readHistory(history, now), now).completed, f)
       /\ (res'.op = "removeFromHistory" /\ RemoveFromHistory(ByFilter(f))) =>
            Ids(history.completed) \ Ids(history'.completed) =
              CompletedWithin(history.completed, f)
       /\ (res'.op = "clearHistory" /\ ClearHistory(ByFilter(f))) =>
            Ids(history.completed) \ Ids(history'.completed) =
              CompletedWithin(history.completed, f)
       /\ (res'.op = "updateHistory"
             /\ UpdateHistory(ByFilter(f), Updates({"task"}, Null, Null))) =>
            {history'.completed[i].id :
               i \in {j \in 1..Len(history'.completed) :
                        history'.completed[j] # history.completed[j]}}
              = {history.completed[i].id :
                   i \in {j \in 1..Len(history.completed) :
                            /\ InBounds(history.completed[j].completedAt, f)
                            /\ history.completed[j].task # <<"u">>}}]_vars

\* The calendar dates the filters name.
Days == 0..(MaxTime \div DayLen)
DayString(d) == [kind |-> "day", day |-> d, t |-> 0]

\* C24: the date bounds are inclusive by calendar day: filterTodos with
\* dateTo = D returns every task added on day D or earlier, and with
\* dateFrom = D every task added on day D or later, and no other.
C24_DayBoundsInclusive ==
  [][res'.op = "filterTodos" =>
       \A d \in Days :
         /\ FilterTodos(DateFilter({"dateTo"}, DayString(d), DayString(d)), Null) =>
              res'.out = SelectSeq(todos, LAMBDA x : LocaleDate(x.added) <= d)
         /\ FilterTodos(DateFilter({"dateFrom"}, DayString(d), DayString(d)), Null) =>
              res'.out = SelectSeq(todos, LAMBDA x : LocaleDate(x.added) >= d)]_vars

\* A task against every predicate present in a filter: category is level 1,
\* subcategory level 2, untagged no level, currentProject level 1 equal to the
\* resolved project, dateFrom <= added <= dateTo, and the text holding
\* searchText whatever the case.
Satisfies(x, f, p) ==
  LET levels == fromStorage(x)
  IN /\ "category" \in f.keys => (Len(levels) >= 1 /\ levels[1] = f.category)
     /\ "subcategory" \in f.keys => (Len(levels) >= 2 /\ levels[2] = f.subcategory)
     /\ "untagged" \in f.keys => Len(levels) = 0
     /\ "currentProject" \in f.keys => (Truthy(p) /\ Len(levels) >= 1 /\ levels[1] = p)
     /\ "dateFrom" \in f.keys => f.dateFrom.t <= x.added
     /\ "dateTo" \in f.keys => x.added <= f.dateTo.t
     /\ "searchText" \in f.keys => Includes(toLowerCase(x.task), toLowerCase(f.searchText))

\* C25: filterTodos returns exactly the active tasks that satisfy every
\* predicate present in the filter, in stored order, and leaves todos.json and
\* the ledger as they are.
C25_FilterExact ==
  [][res'.op = "filterTodos" =>
       \A f \in Predicates, p \in Projects :
         FilterTodos(f, p) =>
           /\ res'.out = SelectSeq(todos, LAMBDA x : Satisfies(x, f, p))
           /\ todos' = todos /\ history' = history /\ disk' = disk]_vars

\* C26: in every persisted state of the ledger, each entry's completedAt falls
\* on the local calendar day of lastCleared or on a later one.
C26_EntriesSinceLastCleared ==
  history.exists =>
    \A i \in 1..Len(history.completed) :
      LocaleDate(history.completed[i].completedAt) >= LocaleDate(history.lastCleared)

\* The ledger was cleared on a later day than the first, and holds an entry
\* completed after that clear.
C26_Witness ==
  /\ history.exists /\ LocaleDate(history.lastCleared) >= 1
  /\ \E i \in 1..Len(history.completed) :
       history.completed[i].completedAt > history.lastCleared

\* C27: across the ledger's operations (query, complete, restore,
\* removeFromHistory, updateHistory, clearHistory), the clock never going
\* back, the persisted lastCleared never moves to an earlier instant.
C27_LastClearedForward ==
  [][(history.exists /\ history'.exists) => history'.lastCleared >= history.lastCleared]_vars

\* clearHistory() emptied a ledger holding an entry, on a later instant than
\* the first, and lastCleared is that instant.
C27_Witness ==
  /\ res.op = "clearHistory" /\ res.err = "" /\ res.n >= 1
  /\ history.exists /\ history.lastCleared = now /\ now >= 1
  /\ history.completed = <<>>

\* C28: completeTodoById clears before it appends: when the local day of now
\* is not the day of lastCleared, after completing task X the persisted ledger
\* holds the one entry X, stamped now, and lastCleared is now.
C28_CompleteClearsFirst ==
  [][res'.op = "completeTodoById" =>
       \A id \in IdInputs :
         (/\ CompleteTodoById(id) /\ res'.err = ""
          /\ LocaleDate(now) # LocaleDate(readHistory(history, now).lastCleared)) =>
           /\ history'.exists
           /\ Len(history'.completed) = 1
           /\ history'.completed[1] = Stamp(todos[FindIndex(todos, id, 1)], now)
           /\ history'.lastCleared = now]_vars

\* Task 2 was completed on a later day than the first, after task 1 had been:
\* the ledger holds the entry of task 2 alone and was cleared at that instant.
C28_Witness ==
  /\ res.op = "completeTodoById" /\ res.err = "" /\ res.id = 2
  /\ nextId = 2 /\ todos = <<>>
  /\ Len(history.completed) = 1 /\ history.completed[1].id = 2
  /\ history.completed[1].completedAt = now
  /\ history.lastCleared = now /\ LocaleDate(now) >= 1

\* C29: no lock orders two processes: when a process writes what it read
\* before another's successful add was written, the persisted collection is
\* the writer's list alone, the other's record is no longer in it, and both
\* calls have reported success.
C29_SecondWriterDiscardsFirst ==
  [][\A q \in Procs, r \in Procs :
       (/\ q # r /\ AddWrite(q)
        /\ procs[r].pc = "added" /\ procs[r].id \in Ids(todos)
        /\ procs[r].id \notin Ids(procs[q].todos)) =>
         /\ procs'[q].pc = "added" /\ procs'[r].pc = "added"
         /\ procs[r].id \notin Ids(todos')
         /\ Ids(todos') = Ids(procs[q].todos)]_vars

\* Both adds have succeeded and todos.json holds one record, the one of the
\* process that wrote last.
C29_Witness ==
  /\ procs[1].pc = "added" /\ procs[2].pc = "added"
  /\ procs[1].id # procs[2].id
  /\ Len(todos) = 1
  /\ todos[1].id \in {procs[1].id, procs[2].id}

\* C30: in a bulk operation over several ids, an id that does not resolve
\* when its turn comes does not abort the batch: the call succeeds, every id
\* of the list that is in the targeted collection is removed, updated,
\* completed or restored, and the count reported is the number of those.
C30_BatchSurvivesMissingId ==
  [][\A l \in {m \in IdLists : Len(m) >= 2} :
       /\ (res'.op = "remove_todos" /\ RemoveTodosTool(ByIds(l), Null)) =>
            /\ res'.err = "" /\ res'.n = Cardinality(SeqToSet(l) \cap Ids(todos))
            /\ Ids(todos') = Ids(todos) \ SeqToSet(l)
       /\ (res'.op = "update_todos"
             /\ UpdateTodosTool(ByIds(l), Updates({"task"}, Null, Null), Null)) =>
            /\ res'.err = "" /\ res'.n = Cardinality(SeqToSet(l) \cap Ids(todos))
            /\ \A i \in 1..Len(todos') : todos'[i].id \in SeqToSet(l) => todos'[i].task = <<"u">>
       /\ (res'.op = "complete_todos" /\ CompleteTodosTool(ByIds(l), Null)) =>
            /\ res'.err = "" /\ res'.n = Cardinality(SeqToSet(l) \cap Ids(todos))
            /\ Ids(todos') = Ids(todos) \ SeqToSet(l)
            /\ SeqToSet(l) \cap Ids(todos) \subseteq Ids(history'.completed)
       /\ (res'.op = "restore_todos" /\ RestoreTodosTool(ByIds(l), Null)) =>
            /\ res'.err = ""
            /\ res'.n = Cardinality(SeqToSet(l) \cap Ids(history.completed))
            /\ SeqToSet(l) \cap Ids(history.completed) \subseteq Ids(todos')]_vars

\* C31: bulkAdd adds its items in order, one add per item, and is not atomic:
\* when item k is the first to fail, the items before k are persisted at the
\* end of the active collection, in order, and the items from k on are not
\* added; when none fails, all are added.
C31_BulkAddPrefixPersists ==
  [][res'.op = "bulkAdd" =>
       \A items \in BulkInputs \ {<<>>}, p \in Projects :
         BulkAdd(items, Undef, Null, p) =>
           LET bad == {j \in DOMAIN items : fromString(items[j].task, MAX_CATEGORY_DEPTH).err # ""}
               k == IF bad = {} THEN Len(items) + 1
                    ELSE CHOOSE j \in bad : \A m \in bad : j <= m
           IN /\ (res'.err # "") <=> (bad # {})
              /\ res'.n = k - 1
              /\ Len(todos') = Len(todos) + k - 1
              /\ SubSeq(todos', 1, Len(todos)) = todos
              /\ \A j \in 1..(k - 1) :
                   todos'[Len(todos) + j].task = fromString(items[j].task, MAX_CATEGORY_DEPTH).task]_vars

\* bulkAdd of two items failed at the second: the first is the one record of
\* todos.json.
C31_Witness ==
  /\ res.op = "bulkAdd" /\ res.err # "" /\ res.n = 1
  /\ nextId = 1 /\ Len(todos) = 1 /\ todos[1].task = <<"t">>

\* A task against a selector by ids, by category or by untagged.
Selected(x, sel) ==
  IF sel.kind = "ids" THEN x.id \in SeqToSet(sel.ids)
  ELSE /\ "category" \in sel.filter.keys => x.category = sel.filter.category
       /\ "untagged" \in sel.filter.keys => ~Truthy(x.category)

\* C32: remove has no history side effect: removeTodoById, removeTodo and
\* bulkDelete leave the ledger's file, entries and lastCleared as they were,
\* and exactly the matched tasks leave the active collection, the others
\* staying as they were and in their order.
C32_RemoveLeavesLedger ==
  [][/\ res'.op = "removeTodoById" =>
          \A id \in IdInputs :
            RemoveTodoById(id) =>
              /\ history' = history
              /\ todos' = SelectSeq(todos, LAMBDA x : x.id # id)
              /\ (res'.err = "") <=> (id \in Ids(todos))
     /\ res'.op = "removeTodo" =>
          \A i \in Indexes, f \in BOOLEAN, p \in Projects :
            RemoveTodo(i, f, p) =>
              /\ history' = history
              /\ IF res'.err = ""
                 THEN /\ i \in 1..Len(readTodos(todos, f, p))
                      /\ todos' = SelectSeq(todos, LAMBDA x : x.id # readTodos(todos, f, p)[i].id)
                 ELSE todos' = todos
     /\ res'.op = "bulkDelete" =>
          \A sel \in Selectors :
            BulkDelete(sel, Null) =>
              /\ history' = history
              /\ res'.err # "" => todos' = todos
              /\ (res'.err = "" /\ sel.filter.keys \subseteq {"category", "untagged"}) =>
                   todos' = SelectSeq(todos, LAMBDA x : ~Selected(x, sel))]_vars

\* A task was removed on a later day than the ledger was cleared, and the
\* ledger still holds its entry.
C32_Witness ==
  /\ res.op \in {"removeTodoById", "removeTodo", "bulkDelete"} /\ res.err = "" /\ res.n = 1
  /\ history.exists /\ Len(history.completed) = 1
  /\ LocaleDate(now) # LocaleDate(history.lastCleared)

\* C33: removeFromHistory and updateHistory called with an empty array of ids
\* or with a filter that has no recognised key fail with InvalidSelector and
\* leave the persisted ledger unchanged.
C33_HistorySelectorChecked ==
  [][\A a \in {ByIds(<<>>)} \cup {ByFilter(f) : f \in ZeroKeyFilters} :
       /\ (res'.op = "removeFromHistory" /\ RemoveFromHistory(a)) =>
            (res'.err = "InvalidSelector" /\ history' = history /\ todos' = todos)
       /\ (res'.op = "updateHistory"
             /\ UpdateHistory(a, Updates({"task"}, Null, Null))) =>
            (res'.err = "InvalidSelector" /\ history' = history /\ todos' = todos)]_vars

\* A removal or an update of the ledger was refused for its selector while
\* the ledger held an entry.
C33_Witness ==
  /\ res.op \in {"removeFromHistory", "updateHistory"} /\ res.err = "InvalidSelector"
  /\ history.exists /\ Len(history.completed) >= 1

\* C34: remove, complete, update and restore by an index below 1 or above the
\* length of the list they index fail with an error that carries the index
\* and the valid range 1..length, and no task is removed, completed, updated
\* or restored.
C34_IndexOutOfRange ==
  [][\A i \in Indexes, f \in BOOLEAN, p \in Projects :
       /\ (res'.op = "removeTodo" /\ i \notin 1..Len(readTodos(todos, f, p))
             /\ RemoveTodo(i, f, p)) =>
            /\ res'.err = "IndexOutOfRange" /\ res'.id = i
            /\ res'.n = Len(readTodos(todos, f, p))
            /\ todos' = todos /\ history' = history
       /\ (res'.op = "completeTodo" /\ i \notin 1..Len(readTodos(todos, f, p))
             /\ CompleteTodo(i, f, p)) =>
            /\ res'.err = "IndexOutOfRange" /\ res'.id = i
            /\ res'.n = Len(readTodos(todos, f, p))
            /\ todos' = todos /\ history' = history
       /\ (res'.op = "updateTodo" /\ i \notin 1..Len(readTodos(todos, f, p))
             /\ \E u \in UpdateInputs \ {Updates({}, Null, Null)} : UpdateTodo(i, u, f, p)) =>
            /\ res'.err = "IndexOutOfRange" /\ res'.id = i
            /\ res'.n = Len(readTodos(todos, f, p))
            /\ todos' = todos /\ history' = history
       /\ (res'.op = "restoreTodo" /\ i \notin 1..Len(queryHistory(history, f, p, now).out)
             /\ RestoreTodo(i, f, p)) =>
            /\ res'.err = "IndexOutOfRange" /\ res'.id = i
            /\ res'.n = Len(queryHistory(history, f, p, now).out)
            /\ todos' = todos /\ history'.completed = history.completed]_vars

\* Index 3 was refused on a list of two tasks, which are both still there.
C34_Witness ==
  /\ res.op \in {"removeTodo", "completeTodo", "updateTodo"}
  /\ res.err = "IndexOutOfRange" /\ res.id = MaxIds + 1 /\ res.n = MaxIds
  /\ Len(todos) = MaxIds

\* C35: clearTodos in project scope removes exactly the tasks the
\* project-scoped view returns, whatever the project resolver answers, and
\* leaves the others as they were; in global scope it removes every task; it
\* returns the number removed and never changes the ledger.
C35_ClearRespectsScope ==
  [][\A f \in BOOLEAN, p \in Projects :
       (res'.op = "clearTodos" /\ ClearTodos(f, p)) =>
         LET view == readTodos(todos, f, p)
         IN /\ todos' = SelectSeq(todos, LAMBDA x : \A k \in 1..Len(view) : view[k] # x)
            /\ res'.n = Len(view)
            /\ history' = history]_vars

\* The records of after are those of before, each with an id, the ids that
\* were there unchanged.
IdsAdded(before, after) ==
  /\ Len(after) = Len(before)
  /\ \A k \in 1..Len(before) :
       /\ after[k].id # 0
       /\ before[k].id # 0 => after[k].id = before[k].id
       /\ after[k] = [before[k] EXCEPT !.id = after[k].id]

NoneLacksId(list) == \A k \in 1..Len(list) : list[k].id # 0

\* C36: a run of the add-ids migration gives an id to every record that
\* lacks one and changes no id that was there; a run over files in which every
\* record has an id, such as the output of a run, changes no record and writes
\* no file.
C36_MigrationIdempotent ==
  [][(res'.op = "migrate" /\ MigrateAddIds) =>
       /\ IdsAdded(todos, todos')
       /\ IdsAdded(history.completed, history'.completed)
       /\ history' = [history EXCEPT !.completed = history'.completed]
       /\ NoneLacksId(todos') /\ NoneLacksId(history'.completed)
       /\ (NoneLacksId(todos) /\ NoneLacksId(history.completed)) =>
            /\ todos' = todos /\ history' = history
            /\ res'.n = 0 /\ res'.written = 0]_vars

\* A second run, after a run that gave ids to records of both files, found
\* nothing to do.
C36_Witness ==
  /\ res.op = "migrate" /\ res.n = 0 /\ res.written = 0
  /\ nextId = MaxIds + 2
  /\ Len(todos) > 0 /\ Len(history.completed) > 0

\* C37: a queryHistory that performs no rollover makes no ledger entry
\* disappear: every entry in the ledger when the query writes, such as the
\* one a complete in another process has just written, is in the ledger after
\* the write.
C37_QueryKeepsEntries ==
  [][\A q \in Querying :
       (procs[q].pc = "queryWrite" /\ procs[q].id = 0 /\ QueryWrite(q)) =>
         \A k \in 1..Len(history.completed) :
           \E j \in 1..Len(history'.completed) :
             history'.completed[j] = history.completed[k]]_vars

\* C38: a filter that passes the non-empty check of bulkDelete or bulkUpdate
\* restricts the match: one whose recognised keys all carry inactive values
\* (untagged: false, category: "", currentProject: false) does not select
\* every task of a collection that has tasks.
C38_AcceptedFilterRestricts ==
  [][\A sel \in InactiveSelectors, p \in Projects :
       /\ (res'.op = "bulkDelete" /\ BulkDelete(sel, p)
             /\ res'.err = "" /\ Len(todos) > 0) => res'.n < Len(todos)
       /\ (res'.op = "bulkUpdate" /\ (\E u \in UpdateInputs : BulkUpdate(sel, u, p))
             /\ res'.err = "" /\ Len(todos) > 0) => res'.n < Len(todos)]_vars

\* The tasks of before that are still in after stand there in the order they
\* had.
RelativeOrderKept(before, after) ==
  \A i, j \in 1..Len(before) :
    (i < j /\ before[i].id \in Ids(after) /\ before[j].id \in Ids(after)) =>
      FindIndex(after, before[i].id, 1) < FindIndex(after, before[j].id, 1)

====
